---- MODULE Spec2Model ----
(***************************************************************************)
(* Model of the ccw bus driver core (drivers/s390/cio/device.c): the       *)
(* subchannel <-> ccw device binding, the relocation work items, the       *)
(* subchannel event evaluator and the recovery timer.                      *)
(*                                                                         *)
(* Handlers are pure operators over a world record w (the program's state  *)
(* plus the trace of the handler that is running); an action draws the     *)
(* handler's inputs and the answers of the collaborators (w.ch) and        *)
(* commits the resulting record to the variables.                          *)
(***************************************************************************)
EXTENDS Integers, Sequences, FiniteSets, TLC

\* ------------------------------------------------------------- bounds
NumSch == 2            \* real subchannels 1..NumSch
NumDev == 3            \* ccw device objects 1..NumDev
NumDevno == 2          \* device numbers 1..NumDevno
MaxExchange == 1       \* exchanges of the device behind one subchannel id
NumCaller == 2         \* contexts that request online/offline transitions
MaxRef == 3            \* no new request for a device with more references

\* ---------------------------------------------------- program constants
NULL == 0              \* no ccw device
PSEUDO == 0            \* css->pseudo_subchannel (the orphanage)
EAGAIN == 11
ENOMEM == 12
ENODEV == 19
EINVAL == 22
recovery_delay == <<3, 30, 300>>

Sch == 1..NumSch
SchAll == {PSEUDO} \cup Sch
Dev == 1..NumDev
Devno == 1..NumDevno
Paths == {1, 2}
Caller == 1..NumCaller

DEV_STATE_NOT_OPER == "NOT_OPER"
DEV_STATE_OFFLINE == "OFFLINE"
DEV_STATE_ONLINE == "ONLINE"
DEV_STATE_BOXED == "BOXED"
DEV_STATE_SENSE_ID == "SENSE_ID"
DEV_STATE_DISCONNECTED == "DISCONNECTED"
DEV_STATE_DISCONNECTED_SENSE_ID == "DISCONNECTED_SENSE_ID"
DEV_STATE_CLEAR_VERIFY == "CLEAR_VERIFY"
DEV_STATE_QUIESCE == "QUIESCE"
DevStates == {DEV_STATE_NOT_OPER, DEV_STATE_OFFLINE, DEV_STATE_ONLINE,
              DEV_STATE_BOXED, DEV_STATE_SENSE_ID, DEV_STATE_DISCONNECTED,
              DEV_STATE_DISCONNECTED_SENSE_ID, DEV_STATE_CLEAR_VERIFY,
              DEV_STATE_QUIESCE}

CIO_GONE == "CIO_GONE"
CIO_NO_PATH == "CIO_NO_PATH"
CIO_OPER == "CIO_OPER"
CIO_REVALIDATE == "CIO_REVALIDATE"

\* ------------------------------------------------------------ variables
VARIABLES
    sch,      \* [SchAll -> struct subchannel]: reg, cdev, ref, freed, schib, lpm, ...
    dev,      \* [Dev -> struct ccw_device + private]: parent, state, online, ...
    hw,       \* [Sch -> what stsch() reports now]
    rec,      \* recovery_timer and recovery_phase
    oops,     \* the kernel has dereferenced a NULL pointer and stopped
    wq,       \* slow_path_wq: the queued work items, oldest first
    ccw_device_init_count,  \* the counter of devices in recognition
    call      \* the last handler run: its arguments, result and trace

vars == <<sch, dev, hw, rec, oops, wq, ccw_device_init_count, call>>

\* The world a handler runs in.  tr is the trace of the running handler,
\* held the set of subchannel locks it holds, ch the collaborators' answers.
\* ptr is the pointer a lookup or an allocation has returned.
World(ch) == [sch |-> sch, dev |-> dev, hw |-> hw, rec |-> rec, oops |-> oops,
              wq |-> wq, init_count |-> ccw_device_init_count,
              tr |-> <<>>, held |-> {}, ret |-> 0, ptr |-> NULL,
              action |-> "NONE", returned |-> TRUE, ch |-> ch]

Commit(w, name, args) ==
    /\ sch' = w.sch
    /\ dev' = w.dev
    /\ hw' = w.hw
    /\ rec' = w.rec
    /\ oops' = w.oops
    /\ wq' = w.wq
    /\ ccw_device_init_count' = w.init_count
    /\ call' = [name |-> name, args |-> args, ret |-> w.ret,
                action |-> w.action, returned |-> w.returned, tr |-> w.tr,
                tick |-> 1 - call.tick]

Log(w, e) == [w EXCEPT !.tr = Append(@, e)]

\* ------------------------------------------------- locks and references
spin_lock(w, l) == Log([w EXCEPT !.held = @ \cup {l}], <<"lock", l>>)

spin_unlock(w, l) == Log([w EXCEPT !.held = @ \ {l}], <<"unlock", l>>)

\* A reference count in freed memory is read and written: the kernel stops
\* there (w.ch.oops), or the access goes unnoticed.
use_after_free(w, kind, x) ==
    Log([w EXCEPT !.oops = @ \/ w.ch.oops], <<"use_after_free", kind, x>>)

get_sch(w, s) ==
    IF w.sch[s].freed THEN use_after_free(w, "sch", s)
    ELSE Log([w EXCEPT !.sch[s].ref = @ + 1], <<"get_sch", s>>)

\* put_device(&sch->dev): the last reference frees the subchannel.
put_sch(w, s) ==
    IF w.sch[s].freed THEN use_after_free(w, "sch", s)
    ELSE LET w1 == Log([w EXCEPT !.sch[s].ref = @ - 1], <<"put_sch", s>>)
         IN  IF w1.sch[s].ref = 0 THEN [w1 EXCEPT !.sch[s].freed = TRUE] ELSE w1

get_cdev(w, d) ==
    IF w.dev[d].alloc = "freed" THEN use_after_free(w, "cdev", d)
    ELSE [w EXCEPT !.dev[d].ref = @ + 1]

\* The release function of a ccw device: drops the reference the device
\* holds on its parent subchannel and frees the device.
ccw_device_release(w, d) ==
    LET w1 == put_sch(w, w.dev[d].parent)
    IN  [w1 EXCEPT !.dev[d].alloc = "freed"]

put_cdev(w, d) ==
    IF w.dev[d].alloc = "freed" THEN use_after_free(w, "cdev", d)
    ELSE LET w1 == Log([w EXCEPT !.dev[d].ref = @ - 1], <<"put_cdev", d>>)
         IN  IF w1.dev[d].ref = 0 THEN ccw_device_release(w1, d) ELSE w1

\* sch_set_cdev(): the write of a subchannel's bound-device reference.  The
\* trace records whether the writer holds that subchannel's lock.
sch_set_cdev(w, s, d) ==
    Log([w EXCEPT !.sch[s].cdev = d], <<"set_cdev", s, d, s \in w.held>>)

sch_get_cdev(w, s) == w.sch[s].cdev

\* ------------------------------------------- device state machine calls
ccw_device_set_timeout(w, d, expires) ==
    Log([w EXCEPT !.dev[d].timer = (expires # 0)], <<"set_timeout", d, expires>>)

cio_disable_subchannel(w, s) == [w EXCEPT !.sch[s].ena = FALSE]

cio_commit_config(w, s) == Log(w, <<"commit_config", s>>)

\* The FSM is asked to re-run verification for the device.
ccw_device_trigger_reprobe(w, d) == Log(w, <<"reprobe", d>>)

dev_fsm_event(w, d, e) == Log(w, <<"fsm_event", d, e>>)

\* ccw_device_offline(): the FSM is asked to take the device offline.  An
\* orphaned device is done at once; a device on a subchannel must be ONLINE,
\* and the request is then started (the FSM settles in OFFLINE) or refused
\* by the hardware, as w.ch says.
ccw_device_offline(w, d) ==
    IF w.dev[d].parent = PSEUDO
    THEN [w EXCEPT !.dev[d].state = DEV_STATE_OFFLINE, !.ret = 0]
    ELSE IF w.dev[d].state # DEV_STATE_ONLINE THEN [w EXCEPT !.ret = -EINVAL]
    ELSE IF w.ch.offline_ok
    THEN [w EXCEPT !.dev[d].state = DEV_STATE_OFFLINE, !.ret = 0]
    ELSE [w EXCEPT !.ret = -ENODEV]

\* ccw_device_online(): the FSM is asked to bring an OFFLINE or BOXED device
\* online.  The subchannel cannot be enabled, or the request is started and
\* the FSM settles in the state w.ch.final.
ccw_device_online(w, d) ==
    IF w.dev[d].state \notin {DEV_STATE_OFFLINE, DEV_STATE_BOXED}
    THEN [w EXCEPT !.ret = -EINVAL]
    ELSE IF w.ch.online_ok
    THEN [w EXCEPT !.dev[d].state = w.ch.final, !.ret = 0]
    ELSE [w EXCEPT !.ret = -ENODEV]

\* cdev->drv->set_online(cdev) and cdev->drv->set_offline(cdev): a driver
\* without the callback counts as one that agrees.
drv_set_online(w, d) ==
    [Log(w, <<"drv_set_online", d>>) EXCEPT !.ret = IF w.ch.cb THEN w.ch.cb_ret ELSE 0]

drv_set_offline(w, d) ==
    [Log(w, <<"drv_set_offline", d>>) EXCEPT !.ret = IF w.ch.cb THEN w.ch.cb_ret ELSE 0]

\* ccw_device_notify(): the driver bound to the device is asked whether it
\* wants to keep the device; w.ch.keep is its answer.
ccw_device_notify(w, d, event) ==
    [Log(w, <<"notify", d, event, w.ch.keep>>)
        EXCEPT !.ret = IF w.ch.keep THEN 1 ELSE 0]

\* css_probe_device(): a probe of the subchannel id is requested.
css_probe_device(w, s) ==
    [Log(w, <<"probe", s, w.ch.probe_ret>>) EXCEPT !.ret = w.ch.probe_ret]

\* ---------------------------------------------------- recovery scheduler
\* mod_timer(&recovery_timer, jiffies + delay * HZ): the timer is armed, or
\* a pending timer is given the new expiry (the trace says which).
mod_timer(w, delay) ==
    Log([w EXCEPT !.rec.pending = TRUE, !.rec.remaining = delay],
        <<"mod_timer", delay, w.rec.pending>>)

\* The assignment of recovery_phase.
set_recovery_phase(w, ph) ==
    Log([w EXCEPT !.rec.phase = ph], <<"recovery_phase", w.rec.phase, ph>>)

ccw_device_schedule_recovery_rearm(w) ==
    mod_timer(set_recovery_phase(w, 0), recovery_delay[1])

\* A schedule that leaves a pending timer of a later phase alone.
ccw_device_schedule_recovery_idle_only(w) ==
    IF ~w.rec.pending
    THEN mod_timer(set_recovery_phase(w, 0), recovery_delay[1])
    ELSE w

ccw_device_schedule_recovery(w) ==
    IF ~w.rec.pending \/ w.rec.phase # 0
    THEN mod_timer(set_recovery_phase(w, 0), recovery_delay[1])
    ELSE w

device_is_disconnected(w, d) ==
    IF d = NULL THEN FALSE
    ELSE w.dev[d].state \in {DEV_STATE_DISCONNECTED,
                             DEV_STATE_DISCONNECTED_SENSE_ID}

device_set_disconnected(w, d) ==
    IF d = NULL THEN w
    ELSE LET w1 == ccw_device_set_timeout(w, d, 0)
             w2 == Log([w1 EXCEPT !.dev[d].state = DEV_STATE_DISCONNECTED],
                       <<"set_state", d, DEV_STATE_DISCONNECTED>>)
         IN  IF w2.dev[d].online THEN ccw_device_schedule_recovery(w2) ELSE w2

ccw_device_set_notoper(w, d) ==
    LET s  == w.dev[d].parent
        w1 == ccw_device_set_timeout(w, d, 0)
        w2 == cio_disable_subchannel(w1, s)
    IN  Log([w2 EXCEPT !.dev[d].state = DEV_STATE_NOT_OPER],
            <<"set_state", d, DEV_STATE_NOT_OPER>>)

\* A check that also pokes a device whose sensing is already in flight.
recovery_check_poke_sensing(w, d) ==
    IF w.dev[d].state \in {DEV_STATE_DISCONNECTED, DEV_STATE_DISCONNECTED_SENSE_ID}
    THEN dev_fsm_event(w, d, "DEV_EVENT_VERIFY")
    ELSE w

\* recovery_check() for one device on the bus.
recovery_check(w, d) ==
    IF w.dev[d].state = DEV_STATE_DISCONNECTED
    THEN dev_fsm_event(w, d, "DEV_EVENT_VERIFY")
    ELSE w

\* The devices bus_for_each_dev() visits: those added to the ccw bus.
OnBus(w) == {d \in Dev : w.dev[d].alloc = "live" /\ w.dev[d].reg}

RECURSIVE ForEachDev(_, _, _)
ForEachDev(Op(_, _), w, ds) ==
    IF ds = {} THEN w
    ELSE LET d == CHOOSE x \in ds : \A y \in ds : x <= y
         IN  ForEachDev(Op, Op(w, d), ds \ {d})

recovery_redo(w) ==
    \E d \in OnBus(w) : w.dev[d].state \in {DEV_STATE_DISCONNECTED,
                                            DEV_STATE_DISCONNECTED_SENSE_ID}

\* A recovery pass that arms the next timer without advancing the phase.
recovery_work_func_same_phase(w) ==
    LET redo == recovery_redo(w)
        w1   == ForEachDev(recovery_check, w, OnBus(w))
    IN  IF redo /\ ~w1.rec.pending
        THEN mod_timer(w1, recovery_delay[w1.rec.phase + 1])
        ELSE w1

\* A recovery pass that never arms the timer again.
recovery_work_func_once(w) == ForEachDev(recovery_check, w, OnBus(w))

recovery_work_func(w) ==
    LET redo == recovery_redo(w)
        w1   == ForEachDev(recovery_check, w, OnBus(w))
    IN  IF redo /\ ~w1.rec.pending
        THEN LET w2 == IF w1.rec.phase < Len(recovery_delay) - 1
                       THEN set_recovery_phase(w1, w1.rec.phase + 1) ELSE w1
             IN  mod_timer(w2, recovery_delay[w2.rec.phase + 1])
        ELSE w1

\* recovery_func(): the timer has expired; the recovery work is scheduled.
recovery_func(w) == [w EXCEPT !.rec.pending = FALSE, !.rec.work = TRUE]

\* ------------------------------------------------- online and offline
ccw_device_set_offline(w, d) ==
    IF d = NULL THEN [w EXCEPT !.ret = -ENODEV]
    ELSE IF ~w.dev[d].online \/ ~w.dev[d].drv THEN [w EXCEPT !.ret = -EINVAL]
    ELSE LET l  == w.dev[d].ccwlock
             w1 == drv_set_offline(w, d)
             w2 == ccw_device_offline(
                       spin_lock([w1 EXCEPT !.dev[d].online = FALSE], l), d)
         IN  IF w1.ret # 0 THEN w1
             ELSE IF w2.ret = -ENODEV
             THEN LET w3 == IF w2.dev[d].state # DEV_STATE_NOT_OPER
                            THEN dev_fsm_event(
                                     [w2 EXCEPT !.dev[d].state = DEV_STATE_OFFLINE],
                                     d, "DEV_EVENT_NOTOPER")
                            ELSE w2
                  IN  [put_cdev(spin_unlock(w3, l), d) EXCEPT !.ret = w2.ret]
             ELSE IF w2.ret = 0
             THEN [put_cdev(spin_unlock(w2, l), d) EXCEPT !.ret = 0]
             ELSE [spin_unlock(w2, l) EXCEPT !.dev[d].online = TRUE]

ccw_device_set_online(w, d) ==
    IF d = NULL THEN [w EXCEPT !.ret = -ENODEV]
    ELSE IF w.dev[d].online \/ ~w.dev[d].drv THEN [w EXCEPT !.ret = -EINVAL]
    ELSE LET l  == w.dev[d].ccwlock
             w1 == spin_unlock(ccw_device_online(spin_lock(get_cdev(w, d), l), d), l)
             w2 == drv_set_online(w1, d)
             w3 == spin_unlock(ccw_device_offline(spin_lock(w2, l), d), l)
         IN  IF w1.ret # 0 THEN [put_cdev(w1, d) EXCEPT !.ret = w1.ret]
             ELSE IF w1.dev[d].state # DEV_STATE_ONLINE
             THEN [put_cdev(w1, d) EXCEPT !.ret = -ENODEV]
             ELSE IF w2.ret = 0 THEN [w2 EXCEPT !.dev[d].online = TRUE]
             ELSE [put_cdev(w3, d)
                     EXCEPT !.ret = IF w3.ret = 0 THEN -ENODEV ELSE w3.ret]

\* ------------------------------------------------ unregistering a device
\* The bus' remove function, run when a registered device with a driver is
\* deleted.
\* A remove function that keeps the reference of an online device.
ccw_device_remove_keep_ref(w, d) ==
    LET l  == w.dev[d].ccwlock
        w1 == IF w.dev[d].online
              THEN spin_unlock(ccw_device_offline(
                       spin_lock([w EXCEPT !.dev[d].online = FALSE], l), d), l)
              ELSE w
    IN  [ccw_device_set_timeout(w1, d, 0) EXCEPT !.dev[d].drv = FALSE]

ccw_device_remove(w, d) ==
    LET l  == w.dev[d].ccwlock
        w1 == IF w.dev[d].online
              THEN put_cdev(spin_unlock(ccw_device_offline(
                       spin_lock([w EXCEPT !.dev[d].online = FALSE], l), d), l), d)
              ELSE w
    IN  [ccw_device_set_timeout(w1, d, 0) EXCEPT !.dev[d].drv = FALSE]

\* The bus' probe function: the driver's probe callback accepts the device
\* (w.ch.bind) or the device stays without a driver.
ccw_device_probe(w, d) ==
    IF w.ch.bind THEN [w EXCEPT !.dev[d].drv = TRUE, !.ret = 0]
    ELSE [w EXCEPT !.dev[d].drv = FALSE, !.ret = -ENODEV]

ccw_device_unregister(w, d) ==
    IF w.dev[d].reg
    THEN LET w1 == Log([w EXCEPT !.dev[d].reg = FALSE], <<"device_del", d>>)
         IN  IF w1.dev[d].drv THEN ccw_device_remove(w1, d) ELSE w1
    ELSE w

\* The subchannel driver's remove function.
io_subchannel_remove(w, s) ==
    LET d == sch_get_cdev(w, s)
    IN  IF d = NULL THEN w
        ELSE LET l  == w.dev[d].ccwlock
                 w1 == sch_set_cdev(spin_lock(w, l), s, NULL)
                 w2 == spin_unlock(Log([w1 EXCEPT !.dev[d].state = DEV_STATE_NOT_OPER],
                                       <<"set_state", d, DEV_STATE_NOT_OPER>>), l)
             IN  put_cdev(ccw_device_unregister(w2, d), d)

\* css_sch_device_unregister(): a registered subchannel is taken from the
\* bus (its driver's remove function runs) and its initial reference dropped.
css_sch_device_unregister(w, s) ==
    IF w.sch[s].reg
    THEN LET w1 == Log([w EXCEPT !.sch[s].reg = FALSE], <<"unreg", s>>)
         IN  put_sch(io_subchannel_remove(w1, s), s)
    ELSE Log(w, <<"unreg_noop", s>>)

\* -------------------------------------------- subchannel event evaluator
io_subchannel_get_status(w, s) ==
    IF ~w.hw[s].ok \/ ~w.hw[s].dnv THEN CIO_GONE
    ELSE IF w.sch[s].dnv /\ w.hw[s].dev # w.sch[s].devno THEN CIO_REVALIDATE
    ELSE IF w.sch[s].lpm = {} THEN CIO_NO_PATH
    ELSE CIO_OPER

io_subchannel_notify(w, s, event) ==
    LET d == sch_get_cdev(w, s)
    IN  IF d = NULL THEN [w EXCEPT !.ret = 0]
        ELSE ccw_device_notify(w, d, event)

\* A classification that unregisters a disconnected device whose subchannel
\* reports another device number, instead of reprobing it.
sch_event_classify_unreg_disc(w, s, disc) ==
    LET event == io_subchannel_get_status(w, s)
        w0    == Log(w, <<"status", s, event>>)
    IN  CASE event = CIO_NO_PATH /\ disc -> [w0 EXCEPT !.action = "REPROBE"]
          [] event \in {CIO_NO_PATH, CIO_GONE} /\ ~(event = CIO_NO_PATH /\ disc) ->
                 LET w1 == io_subchannel_notify(w0, s, event)
                 IN  [w1 EXCEPT !.action = IF w1.ret # 0 THEN "DISC"
                                           ELSE "UNREGISTER"]
          [] event = CIO_REVALIDATE -> [w0 EXCEPT !.action = "UNREGISTER_PROBE"]
          [] event = CIO_OPER ->
                 [w0 EXCEPT !.action = IF disc THEN "REPROBE" ELSE "NONE"]

\* The classification of io_subchannel_sch_event(): w with .action set (the
\* driver is asked through io_subchannel_notify where the code asks it).
sch_event_classify(w, s, disc) ==
    LET event == io_subchannel_get_status(w, s)
        w0    == Log(w, <<"status", s, event>>)
    IN  CASE event = CIO_NO_PATH /\ disc -> [w0 EXCEPT !.action = "REPROBE"]
          [] event \in {CIO_NO_PATH, CIO_GONE} /\ ~(event = CIO_NO_PATH /\ disc) ->
                 LET w1 == io_subchannel_notify(w0, s, event)
                 IN  [w1 EXCEPT !.action = IF w1.ret # 0 THEN "DISC"
                                           ELSE "UNREGISTER"]
          [] event = CIO_REVALIDATE ->
                 [w0 EXCEPT !.action = IF disc THEN "REPROBE"
                                       ELSE "UNREGISTER_PROBE"]
          [] event = CIO_OPER ->
                 [w0 EXCEPT !.action = IF disc THEN "REPROBE" ELSE "NONE"]

\* The execution of the chosen action, up to the final unlock.  Forcing a
\* state on a NULL device dereferences NULL: the kernel stops there with the
\* lock held (w.ch.oops), or the access goes unnoticed and changes nothing
\* this model follows.
sch_event_perform(w, s, d) ==
    CASE w.action \in {"UNREGISTER", "UNREGISTER_PROBE"} ->
             IF d = NULL /\ w.ch.oops
             THEN Log([w EXCEPT !.oops = TRUE, !.returned = FALSE],
                      <<"null_deref", s>>)
             ELSE LET w1 == IF d = NULL THEN Log(w, <<"null_deref", s>>)
                            ELSE ccw_device_set_notoper(w, d)
                      w2 == css_sch_device_unregister(spin_unlock(w1, s), s)
                      w3 == spin_lock(w2, s)
                  IN  cio_commit_config([w3 EXCEPT !.sch[s].intparm = 0], s)
      [] w.action = "REPROBE" -> ccw_device_trigger_reprobe(w, d)
      [] w.action = "DISC" -> device_set_disconnected(w, d)
      [] OTHER -> w

\* A rejection that returns with the lock held.
sch_event_reject_disc_locked(w, s) == [w EXCEPT !.ret = 0]

\* Lines 1626-1630: a disconnected device on the slow path.
sch_event_reject_disc(w, s) == [spin_unlock(w, s) EXCEPT !.ret = 0]

sch_event_kill_timer_skip(w, d) == w

\* Lines 1631-1633: kill pending timers.
sch_event_kill_timer(w, d) ==
    IF d # NULL THEN ccw_device_set_timeout(w, d, 0) ELSE w

sch_event_reject_normal_zero(w, s) == [spin_unlock(w, s) EXCEPT !.ret = 0]

\* Lines 1634-1638: a non-disconnected device on the fast path.
sch_event_reject_normal(w, s) == [spin_unlock(w, s) EXCEPT !.ret = -EAGAIN]

\* A finish that probes but drops the probe's result.
sch_event_finish_ret0(w, s) ==
    LET w1 == [spin_unlock(w, s) EXCEPT !.ret = 0]
    IN  IF w1.action = "UNREGISTER_PROBE"
        THEN [css_probe_device(w1, s) EXCEPT !.ret = 0] ELSE w1

\* Lines 1699-1704: the final unlock and the probe.
sch_event_finish(w, s) ==
    LET w1 == [spin_unlock(w, s) EXCEPT !.ret = 0]
    IN  IF w1.action = "UNREGISTER_PROBE" THEN css_probe_device(w1, s) ELSE w1

\* An evaluator that kills the device's timer before its first path check.
io_subchannel_sch_event_timer_first(w, s, slow) ==
    LET w0   == spin_lock(w, s)
        d    == sch_get_cdev(w0, s)
        disc == device_is_disconnected(w0, d)
        w1   == sch_event_kill_timer(w0, d)
    IN  IF disc /\ slow THEN sch_event_reject_disc(w1, s)
        ELSE IF ~disc /\ ~slow THEN sch_event_reject_normal(w1, s)
        ELSE LET w2 == sch_event_perform(sch_event_classify(w1, s, disc), s, d)
             IN  IF w2.returned THEN sch_event_finish(w2, s) ELSE w2

io_subchannel_sch_event(w, s, slow) ==
    LET w0   == spin_lock(w, s)
        d    == sch_get_cdev(w0, s)
        disc == device_is_disconnected(w0, d)
    IN  IF disc /\ slow THEN sch_event_reject_disc(w0, s)
        ELSE LET w1 == sch_event_kill_timer(w0, d)
             IN  IF ~disc /\ ~slow THEN sch_event_reject_normal(w1, s)
                 ELSE LET w2 == sch_event_perform(
                                    sch_event_classify(w1, s, disc), s, d)
                      IN  IF w2.returned THEN sch_event_finish(w2, s) ELSE w2

\* ------------------------------------------------------- initial states
NoSch == [reg |-> FALSE, cdev |-> NULL, ref |-> 0, freed |-> FALSE,
          dnv |-> FALSE, devno |-> 1, lpm |-> {}, opm |-> {}, ena |-> FALSE,
          intparm |-> 0, work |-> FALSE]

NoDev == [alloc |-> "none", parent |-> PSEUDO, state |-> DEV_STATE_NOT_OPER,
          online |-> FALSE, timer |-> FALSE, devno |-> 1, schid |-> PSEUDO,
          ccwlock |-> PSEUDO, reg |-> FALSE, ref |-> 0, drv |-> FALSE,
          kfunc |-> "none", kpend |-> FALSE, tosch |-> PSEUDO,
          onoff |-> 0, pc |-> [c \in Caller |-> <<"idle">>]]

\* A registered I/O subchannel with `kids` child devices, bound to device d.
RegSch(d, kids, devno, lpm) ==
    [NoSch EXCEPT !.reg = TRUE, !.cdev = d, !.ref = 1 + kids, !.dnv = TRUE,
                  !.devno = devno, !.lpm = lpm, !.opm = Paths, !.ena = TRUE,
                  !.intparm = 1]

\* A recognized, registered device on subchannel s; online devices hold the
\* extra reference of ccw_device_set_online().
RegDev(s, devno, state, online) ==
    [NoDev EXCEPT !.alloc = "live", !.parent = s, !.state = state,
                  !.online = online, !.devno = devno, !.schid = s,
                  !.ccwlock = s, !.reg = TRUE,
                  !.ref = IF online THEN 2 ELSE 1, !.drv = TRUE]

\* What stsch() reports for a subchannel id; gen counts how often the device
\* behind the id has been exchanged.
HwOk(devno) == [ok |-> TRUE, dnv |-> TRUE, dev |-> devno, gen |-> 0]

HwStates == [ok : BOOLEAN, dnv : BOOLEAN, dev : Devno, gen : {0}]

NoCall == [name |-> "none", args |-> <<>>, ret |-> 0, action |-> "NONE",
           returned |-> TRUE, tr |-> <<>>, tick |-> 0]

NoRec == [pending |-> FALSE, remaining |-> 0, phase |-> 0, work |-> FALSE]

\* Subchannel 1 is registered; it is bound to device 1 (offline, or set
\* online by its driver) or has lost its device after a failed registration.
InitEval ==
    /\ \E bound \in BOOLEAN, online \in BOOLEAN, lpm \in {{}, {1}} :
         /\ (~bound => ~online)
         /\ sch = [s \in SchAll |->
                     IF s = PSEUDO THEN RegSch(NULL, 0, 1, {})
                     ELSE IF s = 1
                     THEN RegSch(IF bound THEN 1 ELSE NULL,
                                 IF bound THEN 1 ELSE 0, 1, lpm)
                     ELSE NoSch]
         /\ dev = [d \in Dev |->
                     IF d = 1 /\ bound
                     THEN RegDev(1, 1, IF online THEN DEV_STATE_ONLINE
                                       ELSE DEV_STATE_OFFLINE, online)
                     ELSE NoDev]
    /\ hw = [s \in Sch |-> HwOk(1)]
    /\ rec = NoRec
    /\ oops = FALSE
    /\ wq = <<>>
    /\ ccw_device_init_count = 0
    /\ call = NoCall

\* ------------------------------------------------- relocation primitives
\* kzalloc(): the next answer of the allocator.
kzalloc_ok(w) == Head(w.ch.alloc_ok)

kzalloc_done(w) ==
    Log([w EXCEPT !.ch.alloc_ok = Tail(@)], <<"kzalloc", Head(w.ch.alloc_ok)>>)

IS_ERR(p) == p < 0

\* device_move(): the driver core reparents the device, or fails and leaves
\* it where it was.
device_move(w, d, s) ==
    LET ok == Head(w.ch.move_ok)
        w1 == Log([w EXCEPT !.ch.move_ok = Tail(@)],
                  <<"device_move", d, w.dev[d].parent, s, ok>>)
    IN  IF ok THEN [w1 EXCEPT !.dev[d].parent = s, !.ret = 0]
        ELSE [w1 EXCEPT !.ret = -ENOMEM]

css_update_ssd_info(w, s) == w

PREPARE_WORK(w, d, func) == [w EXCEPT !.dev[d].kfunc = func]

\* queue_work(slow_path_wq, &cdev->private->kick_work): a pending work item
\* is not queued again.
queue_work(w, d) ==
    LET w1 == Log(w, <<"queue_work", d, w.dev[d].kfunc, w.dev[d].kpend>>)
    IN  IF w1.dev[d].kpend THEN w1
        ELSE [w1 EXCEPT !.dev[d].kpend = TRUE, !.wq = Append(@, <<"cdev", d>>)]

ccw_device_is_orphan(w, d) == w.dev[d].parent = PSEUDO

\* The pick of a lookup that walks a device list: the candidate the walk
\* meets first (w.ch.pick when it is a candidate).
FirstMatch(w, cands) ==
    IF cands = {} THEN NULL
    ELSE IF w.ch.pick \in cands THEN w.ch.pick
    ELSE CHOOSE x \in cands : \A y \in cands : x <= y

match_devno(w, d, devno, sibling) ==
    /\ w.dev[d].state = DEV_STATE_DISCONNECTED
    /\ ~ccw_device_is_orphan(w, d)
    /\ w.dev[d].devno = devno
    /\ d # sibling

\* bus_find_device() returns the device with a reference taken.
get_disc_ccwdev_by_dev_id(w, devno, sibling) ==
    LET d == FirstMatch(w, {x \in OnBus(w) : match_devno(w, x, devno, sibling)})
    IN  IF d = NULL THEN [w EXCEPT !.ptr = NULL]
        ELSE [get_cdev(w, d) EXCEPT !.ptr = d]

match_orphan(w, d, devno) == w.dev[d].devno = devno

\* A lookup in the orphanage that finds nothing.
get_orphaned_ccwdev_by_dev_id_none(w, devno) == [w EXCEPT !.ptr = NULL]

\* device_find_child() over the children of the pseudo subchannel.
get_orphaned_ccwdev_by_dev_id(w, devno) ==
    LET d == FirstMatch(w, {x \in OnBus(w) : /\ w.dev[x].parent = PSEUDO
                                             /\ match_orphan(w, x, devno)})
    IN  IF d = NULL THEN [w EXCEPT !.ptr = NULL]
        ELSE [get_cdev(w, d) EXCEPT !.ptr = d]

\* ------------------------------------------------ creating a ccw device
FreeDev(w) == {d \in Dev : w.dev[d].alloc = "none"}

io_subchannel_allocate_dev(w, s) ==
    LET w1 == kzalloc_done(w)
    IN  IF kzalloc_ok(w) /\ FreeDev(w) # {}
        THEN LET d == CHOOSE x \in FreeDev(w) : \A y \in FreeDev(w) : x <= y
             IN  [w1 EXCEPT !.dev[d] = [NoDev EXCEPT !.alloc = "live"], !.ptr = d]
        ELSE [w1 EXCEPT !.ptr = -ENOMEM]

\* device_initialize() gives the device its initial reference; the device
\* takes a reference on its parent subchannel.
io_subchannel_initialize_dev(w, s, d) ==
    [get_sch([w EXCEPT !.dev[d].parent = s, !.dev[d].ref = 1,
                       !.dev[d].kfunc = "none"], s) EXCEPT !.ret = 0]

io_subchannel_create_ccwdev(w, s) ==
    LET w1 == io_subchannel_allocate_dev(w, s)
    IN  IF ~IS_ERR(w1.ptr)
        THEN LET w2 == io_subchannel_initialize_dev(w1, s, w1.ptr)
             IN  IF w2.ret # 0
                 THEN [w2 EXCEPT !.dev[w1.ptr].alloc = "freed", !.ptr = w2.ret]
                 ELSE w2
        ELSE w1

\* ccw_device_recognition(): the FSM starts sensing the device (and arms its
\* timeout), or the subchannel cannot be enabled.
ccw_device_recognition(w, d) ==
    IF w.ch.recog_ok
    THEN [ccw_device_set_timeout(
              Log([w EXCEPT !.dev[d].state = DEV_STATE_SENSE_ID],
                  <<"set_state", d, DEV_STATE_SENSE_ID>>), d, 60)
          EXCEPT !.ret = 0]
    ELSE [w EXCEPT !.ret = -ENODEV]

\* atomic_inc() and atomic_dec_and_test() on ccw_device_init_count.
atomic_inc(w) == [w EXCEPT !.init_count = @ + 1]

atomic_dec_and_test(w) == [w EXCEPT !.init_count = @ - 1]

io_subchannel_recog(w, d, s) ==
    LET w1 == sch_set_cdev(w, s, d)
        w2 == [w1 EXCEPT !.dev[d].ccwlock = s,
                         !.dev[d].devno = w.sch[s].devno,
                         !.dev[d].schid = s,
                         !.dev[d].state = DEV_STATE_NOT_OPER]
        w3 == spin_unlock(ccw_device_recognition(spin_lock(atomic_inc(w2), s), d), s)
    IN  IF w3.ret # 0 THEN atomic_dec_and_test(w3) ELSE w3

\* -------------------------------------------------- relocating a device
\* An attach that binds the device but leaves it the lock of its old parent.
sch_attach_device_keep_lock(w, s, d) ==
    LET w1 == spin_lock(css_update_ssd_info(Log(w, <<"attach", s, d>>), s), s)
        w2 == sch_set_cdev(w1, s, d)
        w3 == [w2 EXCEPT !.dev[d].schid = s]
    IN  spin_unlock(ccw_device_trigger_reprobe(w3, d), s)

sch_attach_device(w, s, d) ==
    LET w1 == spin_lock(css_update_ssd_info(Log(w, <<"attach", s, d>>), s), s)
        w2 == sch_set_cdev(w1, s, d)
        w3 == [w2 EXCEPT !.dev[d].schid = s, !.dev[d].ccwlock = s]
    IN  spin_unlock(ccw_device_trigger_reprobe(w3, d), s)

\* A relocation that unregisters the former subchannel while it still names
\* the device.
sch_attach_disconnected_device_unreg_first(w, s, d) ==
    LET other_sch == w.dev[d].parent
        w1 == device_move(get_sch(w, s), d, s)
    IN  IF w1.ret # 0 THEN put_sch(w1, s)
        ELSE LET w2 == css_sch_device_unregister(w1, other_sch)
                 w3 == sch_set_cdev(w2, other_sch, NULL)
             IN  put_sch(sch_attach_device(w3, s, d), other_sch)

sch_attach_disconnected_device(w, s, d) ==
    LET other_sch == w.dev[d].parent
        w1 == device_move(get_sch(w, s), d, s)
    IN  IF w1.ret # 0 THEN put_sch(w1, s)
        ELSE LET w2 == sch_set_cdev(w1, other_sch, NULL)
                 w3 == css_sch_device_unregister(w2, other_sch)
             IN  put_sch(sch_attach_device(w3, s, d), other_sch)

\* A relocation from the orphanage that treats the pseudo subchannel like a
\* real former parent.
sch_attach_orphaned_device_unregister(w, s, d) ==
    LET pseudo_sch == w.dev[d].parent
        w1 == device_move(get_sch(w, s), d, s)
    IN  IF w1.ret # 0 THEN put_sch(w1, s)
        ELSE LET w2 == css_sch_device_unregister(w1, pseudo_sch)
             IN  put_sch(sch_attach_device(w2, s, d), pseudo_sch)

sch_attach_orphaned_device(w, s, d) ==
    LET pseudo_sch == w.dev[d].parent
        w1 == device_move(get_sch(w, s), d, s)
    IN  IF w1.ret # 0 THEN put_sch(w1, s)
        ELSE put_sch(sch_attach_device(w1, s, d), pseudo_sch)

sch_create_and_recog_new_device(w, s) ==
    LET w1 == io_subchannel_create_ccwdev(w, s)
    IN  IF IS_ERR(w1.ptr) THEN css_sch_device_unregister(w1, s)
        ELSE LET d  == w1.ptr
                 w2 == spin_unlock(sch_set_cdev(spin_lock(w1, s), s, d), s)
                 w3 == io_subchannel_recog(w2, d, s)
             IN  IF w3.ret # 0
                 THEN LET w4 == spin_unlock(
                                    sch_set_cdev(spin_lock(w3, s), s, NULL), s)
                          w5 == css_sch_device_unregister(w4, s)
                      IN  put_cdev(put_sch(w5, s), d)
                 ELSE w3

\* A search that looks into the orphanage first.
ccw_device_move_to_orphanage_orphan_first(w, d) ==
    LET s     == w.dev[d].parent
        devno == w.sch[s].devno
        w1    == device_move(get_sch(w, PSEUDO), d, PSEUDO)
    IN  IF w1.ret # 0 THEN put_sch(w1, PSEUDO)
        ELSE LET w2 == [w1 EXCEPT !.dev[d].ccwlock = PSEUDO]
                 w3 == get_orphaned_ccwdev_by_dev_id(w2, devno)
                 w4 == get_disc_ccwdev_by_dev_id(w3, devno, d)
             IN  IF w3.ptr # NULL
                 THEN put_sch(put_cdev(sch_attach_orphaned_device(
                                           w3, s, w3.ptr), w3.ptr), s)
                 ELSE IF w4.ptr # NULL
                 THEN put_sch(put_cdev(sch_attach_disconnected_device(
                                           w4, s, w4.ptr), w4.ptr), s)
                 ELSE put_sch(sch_create_and_recog_new_device(w4, s), s)

ccw_device_move_to_orphanage(w, d) ==
    LET s     == w.dev[d].parent
        devno == w.sch[s].devno
        w1    == device_move(get_sch(w, PSEUDO), d, PSEUDO)
    IN  IF w1.ret # 0 THEN put_sch(w1, PSEUDO)
        ELSE LET w2 == [w1 EXCEPT !.dev[d].ccwlock = PSEUDO]
                 w3 == get_disc_ccwdev_by_dev_id(w2, devno, d)
                 w4 == get_orphaned_ccwdev_by_dev_id(w3, devno)
             IN  IF w3.ptr # NULL
                 THEN put_sch(put_cdev(sch_attach_disconnected_device(
                                           w3, s, w3.ptr), w3.ptr), s)
                 ELSE IF w4.ptr # NULL
                 THEN put_sch(put_cdev(sch_attach_orphaned_device(
                                           w4, s, w4.ptr), w4.ptr), s)
                 ELSE put_sch(sch_create_and_recog_new_device(w4, s), s)

\* A move that attaches the device to its new subchannel while it still
\* holds the lock of the former parent.
ccw_device_move_to_sch_nested(w, d) ==
    LET s  == w.dev[d].tosch
        former_parent == w.dev[d].parent
        w1 == device_move(get_sch(w, s), d, s)
        w2 == IF w1.ret # 0
              THEN put_sch(css_sch_device_unregister(w1, s), s)
              ELSE IF former_parent # PSEUDO
              THEN LET w4 == sch_set_cdev(spin_lock(w1, former_parent),
                                          former_parent, NULL)
                       w5 == spin_unlock(sch_attach_device(w4, s, d), former_parent)
                       w6 == css_sch_device_unregister(w5, former_parent)
                   IN  cio_commit_config(
                           [w6 EXCEPT !.sch[former_parent].intparm = 0],
                           former_parent)
              ELSE sch_attach_device(w1, s, d)
    IN  put_cdev(put_sch(w2, former_parent), d)

ccw_device_move_to_sch(w, d) ==
    LET s  == w.dev[d].tosch
        former_parent == w.dev[d].parent
        w1 == device_move(get_sch(w, s), d, s)
        w2 == IF w1.ret # 0
              THEN put_sch(css_sch_device_unregister(w1, s), s)
              ELSE LET w3 == IF former_parent # PSEUDO
                             THEN LET w4 == spin_unlock(sch_set_cdev(
                                                spin_lock(w1, former_parent),
                                                former_parent, NULL), former_parent)
                                      w5 == css_sch_device_unregister(w4, former_parent)
                                  IN  cio_commit_config(
                                          [w5 EXCEPT !.sch[former_parent].intparm = 0],
                                          former_parent)
                             ELSE w1
                   IN  sch_attach_device(w3, s, d)
    IN  put_cdev(put_sch(w2, former_parent), d)

\* ------------------------------------------------ the other work items
\* ccw_device_register(): device_add() puts the device on the ccw bus (a
\* driver may bind to it), or fails.
ccw_device_register(w, d) ==
    IF w.ch.add_ok
    THEN [w EXCEPT !.dev[d].reg = TRUE, !.dev[d].drv = w.ch.bind, !.ret = 0]
    ELSE [w EXCEPT !.ret = -ENOMEM]

io_subchannel_register(w, d) ==
    LET s == w.dev[d].parent
    IN  atomic_dec_and_test(
          IF ~w.sch[s].reg THEN put_cdev(w, d)
          ELSE IF w.dev[d].reg
          THEN put_cdev(IF ~w.dev[d].drv THEN [w EXCEPT !.dev[d].drv = w.ch.bind]
                        ELSE w, d)
          ELSE LET w1 == ccw_device_register(w, d)
               IN  IF w1.ret # 0
                   THEN LET w2 == spin_unlock(
                                      sch_set_cdev(spin_lock(w1, s), s, NULL), s)
                        IN  put_cdev(put_cdev(w2, d), d)
                   ELSE put_cdev(w1, d))

ccw_device_call_sch_unregister(w, d) ==
    LET s  == w.dev[d].parent
        w1 == css_sch_device_unregister(get_sch(w, s), s)
        w2 == cio_commit_config([w1 EXCEPT !.sch[s].intparm = 0], s)
    IN  put_sch(put_cdev(w2, d), s)

\* Called from the state machine when recognition has settled.
io_subchannel_recog_done(w, d) ==
    CASE w.dev[d].state = DEV_STATE_NOT_OPER ->
             atomic_dec_and_test(
                 queue_work(PREPARE_WORK(get_cdev(w, d), d,
                                         "ccw_device_call_sch_unregister"), d))
      [] w.dev[d].state \in {DEV_STATE_BOXED, DEV_STATE_OFFLINE} ->
             queue_work(PREPARE_WORK(get_cdev(w, d), d,
                                     "io_subchannel_register"), d)
      [] OTHER -> w

io_subchannel_do_unreg(w, s) ==
    LET w1 == css_sch_device_unregister(w, s)
    IN  put_sch(cio_commit_config([w1 EXCEPT !.sch[s].intparm = 0], s), s)

io_subchannel_schedule_removal(w, s) ==
    LET w1 == get_sch(w, s)
    IN  IF w1.sch[s].work THEN w1
        ELSE [w1 EXCEPT !.sch[s].work = TRUE, !.wq = Append(@, <<"sch", s>>)]

\* sch->opm is what chp_get_sch_opm() reports (all paths for the console),
\* sch->lpm the available paths (pmcw.pam) among them.
io_subchannel_init_fields(w, s) ==
    [w EXCEPT !.sch[s].opm = w.ch.opm, !.sch[s].lpm = w.ch.pam \cap w.ch.opm]

\* The probe of a subchannel that has no ccw device yet (early devices, which
\* come with one, are registered before the work queues run).
io_subchannel_probe(w, s) ==
    LET w1 == cio_commit_config(io_subchannel_init_fields(w, s), s)
        w2 == kzalloc_done(w1)
        w3 == get_disc_ccwdev_by_dev_id(w2, w2.sch[s].devno, NULL)
        w4 == IF w3.ptr = NULL
              THEN get_orphaned_ccwdev_by_dev_id(w3, w3.sch[s].devno) ELSE w3
        w5 == io_subchannel_create_ccwdev(w4, s)
        w6 == io_subchannel_recog(w5, w5.ptr, s)
    IN  [(IF ~w.ch.commit_ok THEN io_subchannel_schedule_removal(w1, s)
          ELSE IF ~kzalloc_ok(w1) THEN io_subchannel_schedule_removal(w2, s)
          ELSE IF w4.ptr # NULL
          THEN queue_work(PREPARE_WORK([w4 EXCEPT !.dev[w4.ptr].tosch = s],
                                       w4.ptr, "ccw_device_move_to_sch"), w4.ptr)
          ELSE IF IS_ERR(w5.ptr) THEN io_subchannel_schedule_removal(w5, s)
          ELSE IF w6.ret # 0
          THEN spin_unlock(io_subchannel_recog_done(spin_lock(w6, s), w5.ptr), s)
          ELSE w6) EXCEPT !.ret = 0]

ccw_device_remove_orphan_cb(w, d) ==
    put_cdev(put_cdev(ccw_device_unregister(w, d), d), d)

\* Forced offline in disconnected state: the device is thrown away by a
\* work item, which is given a reference on the device.
ccw_device_remove_disconnected(w, d) ==
    LET l  == w.dev[d].ccwlock
        w1 == get_cdev(w, d)
        w2 == IF ccw_device_is_orphan(w1, d)
              THEN PREPARE_WORK(
                       spin_unlock(Log([spin_lock(w1, l) EXCEPT
                                           !.dev[d].state = DEV_STATE_NOT_OPER],
                                       <<"set_state", d, DEV_STATE_NOT_OPER>>), l),
                       d, "ccw_device_remove_orphan_cb")
              ELSE PREPARE_WORK(w1, d, "ccw_device_call_sch_unregister")
    IN  queue_work(w2, d)

\* ------------------------------------------- the online attribute
\* atomic_set(&cdev->private->onoff, v) and the successful cmpxchg.
set_onoff(w, d, v) == Log([w EXCEPT !.dev[d].onoff = v], <<"onoff", d, v>>)

online_store_handle_offline(w, d) ==
    IF w.dev[d].state = DEV_STATE_DISCONNECTED
    THEN ccw_device_remove_disconnected(w, d)
    ELSE IF w.dev[d].drv /\ w.ch.cb THEN ccw_device_set_offline(w, d)
    ELSE w

\* The devices of the model have been recognized (cu_type # 0).
online_store_recog_and_online(w, d) ==
    [(IF w.dev[d].drv /\ w.ch.cb THEN ccw_device_set_online(w, d) ELSE w)
        EXCEPT !.ret = 0]

\* ccw_device_stlck(): the unconditional reserve of a boxed device.
ccw_device_stlck(w, d) ==
    IF w.ch.stlck_ok THEN [w EXCEPT !.dev[d].state = DEV_STATE_OFFLINE, !.ret = 0]
    ELSE [w EXCEPT !.ret = -EINVAL]

online_store_handle_online(w, d, force) ==
    LET w1 == online_store_recog_and_online(w, d)
        w2 == ccw_device_stlck(w1, d)
    IN  IF w1.ret # 0 THEN w1
        ELSE IF force /\ w1.dev[d].state = DEV_STATE_BOXED
        THEN IF w2.ret # 0 THEN w2 ELSE online_store_recog_and_online(w2, d)
        ELSE w1

\* The cmpxchg at the entry of online_store(): the request is rejected, or
\* the marker is set and the request goes on.
online_store_enter(w, d) ==
    IF w.dev[d].onoff # 0 THEN [w EXCEPT !.ret = -EAGAIN]
    ELSE [set_onoff(w, d, 1) EXCEPT !.returned = FALSE]

\* The strings written to the attribute: "0", "1", "force", a number that
\* is neither 0 nor 1, and a string that is no number.
StoreBufs == {"0", "1", "force", "2", "x"}

\* online_store() once its cmpxchg has set the in-flight marker; the return
\* value of a successful store is count.
online_store(w, d, buf, count) ==
    IF w.dev[d].drv /\ ~w.ch.module_ok
    THEN [set_onoff(w, d, 0) EXCEPT !.ret = -EINVAL]
    ELSE LET w1 == CASE buf = "x" -> [w EXCEPT !.ret = -EINVAL]
                     [] buf = "0" ->
                          [online_store_handle_offline(w, d) EXCEPT !.ret = count]
                     [] buf \in {"1", "force"} ->
                          LET w2 == online_store_handle_online(w, d, buf = "force")
                          IN  IF w2.ret = 0 THEN [w2 EXCEPT !.ret = count] ELSE w2
                     [] OTHER -> [w EXCEPT !.ret = -EINVAL]
         IN  [set_onoff(w1, d, 0) EXCEPT !.ret = w1.ret]

\* ccw_device_set_offline() up to the return of the driver's callback, and
\* from there on; ccw_device_set_online() up to its wait for the FSM, and
\* from there on.  w.returned says whether the first part has returned.
ccw_device_set_offline_enter(w, d) ==
    IF ~w.dev[d].online \/ ~w.dev[d].drv THEN [w EXCEPT !.ret = -EINVAL]
    ELSE LET w1 == drv_set_offline(w, d)
         IN  IF w1.ret # 0 THEN w1 ELSE [w1 EXCEPT !.returned = FALSE]

ccw_device_set_offline_finish(w, d) ==
    LET l  == w.dev[d].ccwlock
        w2 == ccw_device_offline(
                  spin_lock([w EXCEPT !.dev[d].online = FALSE], l), d)
    IN  IF w2.ret = -ENODEV
        THEN LET w3 == IF w2.dev[d].state # DEV_STATE_NOT_OPER
                       THEN dev_fsm_event(
                                [w2 EXCEPT !.dev[d].state = DEV_STATE_OFFLINE],
                                d, "DEV_EVENT_NOTOPER")
                       ELSE w2
             IN  [put_cdev(spin_unlock(w3, l), d) EXCEPT !.ret = w2.ret]
        ELSE IF w2.ret = 0
        THEN [put_cdev(spin_unlock(w2, l), d) EXCEPT !.ret = 0]
        ELSE [spin_unlock(w2, l) EXCEPT !.dev[d].online = TRUE]

ccw_device_set_online_enter(w, d) ==
    IF w.dev[d].online \/ ~w.dev[d].drv THEN [w EXCEPT !.ret = -EINVAL]
    ELSE LET l  == w.dev[d].ccwlock
             w1 == spin_unlock(ccw_device_online(spin_lock(get_cdev(w, d), l), d), l)
         IN  IF w1.ret # 0 THEN [put_cdev(w1, d) EXCEPT !.ret = w1.ret]
             ELSE [w1 EXCEPT !.returned = FALSE]

ccw_device_set_online_finish(w, d) ==
    LET l  == w.dev[d].ccwlock
        w2 == drv_set_online(w, d)
        w3 == spin_unlock(ccw_device_offline(spin_lock(w2, l), d), l)
    IN  IF w.dev[d].state # DEV_STATE_ONLINE
        THEN [put_cdev(w, d) EXCEPT !.ret = -ENODEV]
        ELSE IF w2.ret = 0 THEN [w2 EXCEPT !.dev[d].online = TRUE]
        ELSE [put_cdev(w3, d)
                EXCEPT !.ret = IF w3.ret = 0 THEN -ENODEV ELSE w3.ret]

\* ------------------------------------------------------ the bulk purge
EINTR == 4

\* is_blacklisted(): the exclusion list is w.ch.blacklist.
is_blacklisted(w, devno) == devno \in w.ch.blacklist

\* signal_pending(current): the next answer of w.ch.signal.
signal_pending(w) == Head(w.ch.signal)

purge_fn(w, d) ==
    LET l     == w.dev[d].ccwlock
        w0    == Log(w, <<"purge_fn", d>>)
        unreg == is_blacklisted(w, w.dev[d].devno)
                 /\ w.dev[d].state = DEV_STATE_OFFLINE
        w1    == spin_unlock(spin_lock(w0, l), l)
        w2    == IF unreg
                 THEN queue_work(PREPARE_WORK(get_cdev(w1, d), d,
                                              "ccw_device_call_sch_unregister"), d)
                 ELSE w1
    IN  [w2 EXCEPT !.ret = IF signal_pending(w) THEN -EINTR ELSE 0,
                   !.ch.signal = Tail(@)]

\* bus_for_each_dev(&ccw_bus_type, NULL, NULL, purge_fn): the devices of the
\* bus in their order, up to the first one for which purge_fn() returns an
\* error.
RECURSIVE bus_for_each_dev_purge(_, _)
bus_for_each_dev_purge(w, ds) ==
    IF ds = {} THEN w
    ELSE LET d  == CHOOSE x \in ds : \A y \in ds : x <= y
             w1 == purge_fn(w, d)
         IN  IF w1.ret # 0 THEN w1 ELSE bus_for_each_dev_purge(w1, ds \ {d})

ccw_purge_blacklisted(w) ==
    [bus_for_each_dev_purge(w, OnBus(w)) EXCEPT !.ret = 0]

\* The function a device's kick_work has been prepared with.
kick_work_func(w, d, func) ==
    CASE func = "ccw_device_move_to_orphanage" -> ccw_device_move_to_orphanage(w, d)
      [] func = "ccw_device_move_to_sch" -> ccw_device_move_to_sch(w, d)
      [] func = "io_subchannel_register" -> io_subchannel_register(w, d)
      [] func = "ccw_device_call_sch_unregister" ->
             ccw_device_call_sch_unregister(w, d)
      [] func = "ccw_device_remove_orphan_cb" -> ccw_device_remove_orphan_cb(w, d)
      [] OTHER -> w

\* ------------------------------------------------------------- actions
NoChoice == [keep |-> FALSE, oops |-> FALSE, probe_ret |-> 0,
             offline_ok |-> TRUE, move_ok |-> <<TRUE, TRUE>>,
             alloc_ok |-> <<TRUE, TRUE>>, recog_ok |-> TRUE, add_ok |-> TRUE,
             bind |-> TRUE, commit_ok |-> TRUE, pick |-> 1,
             online_ok |-> TRUE, final |-> DEV_STATE_ONLINE, cb |-> FALSE,
             cb_ret |-> 0, module_ok |-> TRUE, stlck_ok |-> TRUE,
             blacklist |-> {}, signal |-> <<>>,
             opm |-> Paths, pam |-> Paths, schib_ok |-> TRUE,
             io_on_path |-> FALSE, clear_ok |-> TRUE]

Live(d) == dev[d].alloc = "live"

\* The device FSM moves a device to another state (an interrupt, a timeout
\* or the end of a sense operation).
FsmState(d, st) ==
    /\ ~oops /\ Live(d) /\ dev[d].state # st
    /\ dev' = [dev EXCEPT ![d].state = st]
    /\ call' = [NoCall EXCEPT !.name = "fsm", !.tick = 1 - call.tick]
    /\ UNCHANGED <<sch, hw, rec, oops, wq, ccw_device_init_count>>

\* The device FSM arms the device's timeout.
FsmTimeout(d) ==
    /\ ~oops /\ Live(d) /\ ~dev[d].timer
    /\ Commit(ccw_device_set_timeout(World(NoChoice), d, 1), "fsm", <<>>)

\* The hardware behind a subchannel changes.
HwChange(s, h) ==
    /\ ~oops /\ sch[s].reg /\ hw[s] # h
    /\ hw' = [hw EXCEPT ![s] = h]
    /\ call' = [NoCall EXCEPT !.name = "hw", !.tick = 1 - call.tick]
    /\ UNCHANGED <<sch, dev, rec, oops, wq, ccw_device_init_count>>

\* css calls the driver's sch_event for a registered subchannel, on the
\* fast path (slow = FALSE) or from the slow path work queue.
Evaluate(s, slow) ==
    /\ ~oops /\ sch[s].reg
    /\ \E keep \in BOOLEAN, o \in BOOLEAN, pr \in {0, -ENOMEM}, ok \in BOOLEAN :
         Commit(io_subchannel_sch_event(
                    World([keep |-> keep, oops |-> o, probe_ret |-> pr,
                           offline_ok |-> ok]), s, slow),
                "sch_event", <<s, slow>>)

\* A caller schedules recovery (device_set_disconnected() for an online
\* device does).
ScheduleRecovery ==
    /\ ~oops
    /\ Commit(ccw_device_schedule_recovery(World(NoChoice)), "schedule_recovery", <<>>)

\* A second passes.
Tick ==
    /\ ~oops /\ rec.pending /\ rec.remaining > 0
    /\ rec' = [rec EXCEPT !.remaining = @ - 1]
    /\ call' = [NoCall EXCEPT !.name = "tick", !.tick = 1 - call.tick]
    /\ UNCHANGED <<sch, dev, hw, oops, wq, ccw_device_init_count>>

\* The recovery timer expires.
TimerFire ==
    /\ ~oops /\ rec.pending /\ rec.remaining = 0
    /\ Commit(recovery_func(World(NoChoice)), "recovery_func", <<>>)

\* The scheduled recovery work runs.
RecoveryWork ==
    /\ ~oops /\ rec.work
    /\ Commit(recovery_work_func([World(NoChoice) EXCEPT !.rec.work = FALSE]),
              "recovery_work_func", <<>>)

NextEval ==
    \/ \E d \in Dev, st \in DevStates : FsmState(d, st)
    \/ \E d \in Dev : FsmTimeout(d)
    \/ \E s \in Sch, h \in HwStates : HwChange(s, h)
    \/ \E s \in Sch, slow \in BOOLEAN : Evaluate(s, slow)

SpecEval == InitEval /\ [][NextEval]_vars

\* ------------------------------------------------- relocation: the system
\* Two I/O subchannels, each bound to a registered device with its own device
\* number; each device is offline or has been disconnected by its driver.
InitReloc ==
    /\ \E st \in [Sch -> {DEV_STATE_OFFLINE, DEV_STATE_DISCONNECTED}] :
         /\ sch = [s \in SchAll |->
                     IF s = PSEUDO THEN RegSch(NULL, 0, 1, {})
                     ELSE IF s <= NumDevno /\ s <= NumDev
                     THEN RegSch(s, 1, s, Paths)
                     ELSE NoSch]
         /\ dev = [d \in Dev |->
                     IF d \in Sch /\ d <= NumDevno
                     THEN RegDev(d, d, st[d], FALSE)
                     ELSE NoDev]
    /\ hw = [s \in Sch |-> HwOk(IF s <= NumDevno THEN s ELSE 1)]
    /\ rec = NoRec
    /\ oops = FALSE
    /\ wq = <<>>
    /\ ccw_device_init_count = 0
    /\ call = NoCall

\* The answers a work function (or the probe) can be given: those of the
\* collaborators it calls.
Choices(func) ==
    CASE func = "ccw_device_move_to_orphanage" ->
             {[NoChoice EXCEPT !.move_ok = <<m1, m2>>, !.alloc_ok = <<a, TRUE>>,
                               !.recog_ok = r, !.pick = p] :
                  m1 \in BOOLEAN, m2 \in BOOLEAN, a \in BOOLEAN, r \in BOOLEAN,
                  p \in Dev}
      [] func = "io_subchannel_probe" ->
             {[NoChoice EXCEPT !.commit_ok = c, !.alloc_ok = <<a1, a2>>,
                               !.recog_ok = r, !.pick = p] :
                  c \in BOOLEAN, a1 \in BOOLEAN, a2 \in BOOLEAN, r \in BOOLEAN,
                  p \in Dev}
      [] func = "ccw_device_move_to_sch" ->
             {[NoChoice EXCEPT !.move_ok = <<m, TRUE>>] : m \in BOOLEAN}
      [] func = "io_subchannel_register" ->
             {[NoChoice EXCEPT !.add_ok = a] : a \in BOOLEAN}
      [] OTHER -> {NoChoice}

\* ... and what a use of freed memory does.
AllChoices(func) ==
    {[c EXCEPT !.oops = o] : c \in Choices(func), o \in BOOLEAN}

\* The device behind a subchannel id is exchanged for one with another
\* device number.
Exchange(s, n) ==
    /\ ~oops /\ hw[s].gen < MaxExchange /\ hw[s].dev # n
    /\ hw' = [hw EXCEPT ![s] = [HwOk(n) EXCEPT !.gen = hw[s].gen + 1]]
    /\ call' = [NoCall EXCEPT !.name = "hw", !.tick = 1 - call.tick]
    /\ UNCHANGED <<sch, dev, rec, oops, wq, ccw_device_init_count>>

\* The device FSM handles a reprobe request for a disconnected device: it
\* reads the subchannel again and, when another device number has appeared
\* on it, queues the move to the orphanage; else it starts sensing.
FsmReprobe(d) ==
    LET s == dev[d].parent
        w == [World(NoChoice) EXCEPT !.sch[s].devno = hw[s].dev]
    IN  /\ ~oops /\ Live(d) /\ dev[d].state = DEV_STATE_DISCONNECTED
        /\ s # PSEUDO /\ sch[s].reg /\ sch[s].cdev = d
        /\ hw[s].ok /\ hw[s].dnv
        /\ IF hw[s].dev # dev[d].devno
           THEN Commit(queue_work(PREPARE_WORK(w, d, "ccw_device_move_to_orphanage"), d),
                       "fsm_reprobe", <<d>>)
           ELSE Commit([w EXCEPT !.dev[d].state = DEV_STATE_DISCONNECTED_SENSE_ID],
                       "fsm_reprobe", <<d>>)

\* The device FSM has finished the recognition of a device.
RecogDone(d, st) ==
    LET s == dev[d].parent
        w == ccw_device_set_timeout(
                 [spin_lock(World(NoChoice), s) EXCEPT !.dev[d].state = st], d, 0)
    IN  /\ ~oops /\ Live(d) /\ dev[d].state = DEV_STATE_SENSE_ID
        /\ Commit(spin_unlock(io_subchannel_recog_done(w, d), s),
                  "io_subchannel_recog_done", <<d>>)

\* css finds a device on a subchannel id that has no subchannel object,
\* registers a new subchannel and the driver's probe runs.
ProbeSch(s) ==
    /\ ~oops /\ ~sch[s].reg /\ sch[s].ref = 0
    /\ hw[s].ok /\ hw[s].dnv
    /\ \E ch \in AllChoices("io_subchannel_probe") :
         Commit(io_subchannel_probe(
                    [World(ch) EXCEPT !.sch[s] = [RegSch(NULL, 0, hw[s].dev, {})
                                                    EXCEPT !.ena = FALSE]], s),
                "io_subchannel_probe", <<s>>)

\* The slow path worker runs the oldest work item.  A work item whose device
\* has been freed reads freed memory: the kernel stops there, or the stale
\* item is dropped.
SlowWork ==
    /\ ~oops /\ wq # <<>>
    /\ LET item == Head(wq)
           x    == item[2]
       IN  \E ch \in AllChoices(IF item[1] = "sch" THEN "io_subchannel_do_unreg"
                                 ELSE IF ~Live(x) THEN "use_after_free"
                                 ELSE dev[x].kfunc) :
         LET w == [World(ch) EXCEPT !.wq = Tail(@)]
         IN  IF item[1] = "sch"
             THEN Commit(io_subchannel_do_unreg([w EXCEPT !.sch[x].work = FALSE], x),
                         "io_subchannel_do_unreg", <<x>>)
             ELSE IF ~Live(x)
             THEN Commit([w EXCEPT !.oops = ch.oops], "use_after_free", <<x>>)
             ELSE Commit(kick_work_func([w EXCEPT !.dev[x].kpend = FALSE], x,
                                        dev[x].kfunc),
                         dev[x].kfunc, <<x>>)

NextReloc ==
    \/ \E d \in Dev : FsmState(d, DEV_STATE_DISCONNECTED)
    \/ \E s \in Sch, n \in Devno : Exchange(s, n)
    \/ \E d \in Dev : FsmReprobe(d)
    \/ \E d \in Dev, st \in {DEV_STATE_OFFLINE, DEV_STATE_BOXED, DEV_STATE_NOT_OPER} :
         RecogDone(d, st)
    \/ \E s \in Sch : ProbeSch(s)
    \/ SlowWork

SpecReloc == InitReloc /\ [][NextReloc]_vars

\* ======================================================= properties
Range(f) == {f[i] : i \in DOMAIN f}

Tags(tr, tag) == {i \in DOMAIN tr : tr[i][1] = tag}

Count(tr, tag) == Cardinality(Tags(tr, tag))

First(tr, tag) == CHOOSE i \in Tags(tr, tag) : \A j \in Tags(tr, tag) : i <= j

Disc(d) == device_is_disconnected(World(NoChoice), d)

StatusNow(s) == io_subchannel_get_status(World(NoChoice), s)

\* This step is a call of io_subchannel_sch_event(s, slow).
EvalStep(s, slow) ==
    /\ call'.tick # call.tick
    /\ call'.name = "sch_event"
    /\ call'.args = <<s, slow>>

WrongPath(s, slow) == LET disc == Disc(sch[s].cdev)
                      IN  (disc /\ slow) \/ (~disc /\ ~slow)

\* C4: a fast-path evaluation of a subchannel whose device is DISCONNECTED or
\* DISCONNECTED_SENSE_ID, with status NO_PATH, REVALIDATE or OPERATIONAL,
\* chooses REPROBE: exactly one reprobe trigger for the device, no write of
\* the device's state, no question to the driver, no unregistration, no
\* probe, and the return value 0.
C4_FastDisconnectedReprobes ==
    [][\A s \in Sch :
         LET d == sch[s].cdev
         IN  (/\ EvalStep(s, FALSE)
              /\ Disc(d)
              /\ StatusNow(s) \in {CIO_NO_PATH, CIO_REVALIDATE, CIO_OPER})
             => /\ call'.action = "REPROBE"
                /\ Count(call'.tr, "reprobe") = 1
                /\ <<"reprobe", d>> \in Range(call'.tr)
                /\ Count(call'.tr, "set_state") = 0
                /\ dev'[d].state = dev[d].state
                /\ Count(call'.tr, "notify") = 0
                /\ Count(call'.tr, "unreg") = 0
                /\ sch'[s].reg
                /\ Count(call'.tr, "probe") = 0
                /\ call'.returned /\ call'.ret = 0]_vars

\* C4 witness: a fast-path call has reprobed a disconnected device whose
\* subchannel reports another device number.
C4_Witness ==
    /\ call.name = "sch_event"
    /\ call.args = <<1, FALSE>>
    /\ call.action = "REPROBE"
    /\ <<"status", 1, CIO_REVALIDATE>> \in Range(call.tr)
    /\ <<"reprobe", 1>> \in Range(call.tr)

\* The evaluator reaches its classification for this call.
Classifies(s, slow) == ~WrongPath(s, slow)

\* The answer the driver gave in the call that has just run.
DriverKeeps(tr) == \E i \in Tags(tr, "notify") : tr[i][4]

\* C5: when the evaluator classifies and the status is GONE, or NO_PATH with
\* a device that is not disconnected, the driver of a bound device is asked
\* exactly once.  If it wants to keep the device the action is DISCONNECT:
\* the device is DISCONNECTED, its timeout cancelled, recovery is scheduled
\* exactly if the device is online, the subchannel stays registered.  If it
\* does not, or no device is bound, the action is UNREGISTER: the device is
\* NOT_OPERATIONAL, the subchannel is unregistered, no probe is requested.
C5_DriverDecides ==
    [][\A s \in Sch, slow \in BOOLEAN :
         LET d  == sch[s].cdev
             st == StatusNow(s)
         IN  (/\ EvalStep(s, slow)
              /\ Classifies(s, slow)
              /\ st = CIO_GONE \/ (st = CIO_NO_PATH /\ ~Disc(d)))
             => /\ d # NULL => Count(call'.tr, "notify") = 1
                /\ d = NULL => Count(call'.tr, "notify") = 0
                /\ IF d # NULL /\ DriverKeeps(call'.tr)
                   THEN /\ call'.action = "DISC"
                        /\ dev'[d].state = DEV_STATE_DISCONNECTED
                        /\ ~dev'[d].timer
                        /\ dev[d].online => rec'.pending /\ rec'.phase = 0
                        /\ ~dev[d].online => rec' = rec
                        /\ sch'[s].reg
                   ELSE /\ call'.action = "UNREGISTER"
                        /\ d # NULL => dev'[d].state = DEV_STATE_NOT_OPER
                        /\ ~sch'[s].reg
                        /\ Count(call'.tr, "probe") = 0]_vars

\* C5, for a subchannel that has a bound device: the same statement holds.
C5_DriverDecidesBound ==
    [][\A s \in Sch, slow \in BOOLEAN :
         LET d  == sch[s].cdev
             st == StatusNow(s)
         IN  (/\ EvalStep(s, slow)
              /\ Classifies(s, slow)
              /\ d # NULL
              /\ st = CIO_GONE \/ (st = CIO_NO_PATH /\ ~Disc(d)))
             => /\ Count(call'.tr, "notify") = 1
                /\ IF DriverKeeps(call'.tr)
                   THEN /\ call'.action = "DISC"
                        /\ dev'[d].state = DEV_STATE_DISCONNECTED
                        /\ ~dev'[d].timer
                        /\ dev[d].online => rec'.pending /\ rec'.phase = 0
                        /\ ~dev[d].online => rec' = rec
                        /\ sch'[s].reg
                   ELSE /\ call'.action = "UNREGISTER"
                        /\ dev'[d].state = DEV_STATE_NOT_OPER
                        /\ ~sch'[s].reg
                        /\ Count(call'.tr, "probe") = 0]_vars

\* C6: a slow-path evaluation of a subchannel bound to a device that is not
\* disconnected, with status REVALIDATE, chooses UNREGISTER_AND_PROBE and
\* runs in this order: the device is forced to NOT_OPERATIONAL, the
\* subchannel is unregistered, a probe of the subchannel's id is requested.
\* The driver is not asked and the call returns the probe's result.
C6_UnregisterThenProbe ==
    [][\A s \in Sch :
         LET d == sch[s].cdev
         IN  (/\ EvalStep(s, TRUE)
              /\ d # NULL /\ ~Disc(d)
              /\ StatusNow(s) = CIO_REVALIDATE)
             => LET tr == call'.tr
                IN  /\ call'.action = "UNREGISTER_PROBE"
                    /\ <<"set_state", d, DEV_STATE_NOT_OPER>> \in Range(tr)
                    /\ Count(tr, "unreg") = 1 /\ <<"unreg", s>> \in Range(tr)
                    /\ Count(tr, "probe") = 1
                    /\ tr[First(tr, "probe")][2] = s
                    /\ First(tr, "set_state") < First(tr, "unreg")
                    /\ First(tr, "unreg") < First(tr, "probe")
                    /\ dev'[d].state = DEV_STATE_NOT_OPER
                    /\ ~sch'[s].reg
                    /\ Count(tr, "notify") = 0
                    /\ call'.returned
                    /\ call'.ret = tr[First(tr, "probe")][3]]_vars

\* C6 witness: a slow-path call has unregistered subchannel 1 and its probe
\* has failed.
C6_Witness ==
    /\ call.name = "sch_event"
    /\ call.args = <<1, TRUE>>
    /\ call.action = "UNREGISTER_PROBE"
    /\ <<"probe", 1, -ENOMEM>> \in Range(call.tr)
    /\ call.ret = -ENOMEM
    /\ ~sch[1].reg

\* C7 as stated: a wrong-path call leaves the complete state as it was and
\* does not query the hardware status.
C7_RejectionChangesNothing ==
    [][\A s \in Sch, slow \in BOOLEAN :
         (EvalStep(s, slow) /\ WrongPath(s, slow))
         => /\ sch' = sch /\ dev' = dev /\ rec' = rec /\ hw' = hw /\ wq' = wq
            /\ Count(call'.tr, "status") = 0]_vars

\* C7 as amended: a disconnected device presented on the slow path leaves the
\* complete state as it was; a device that is not disconnected (or no device)
\* presented on the fast path leaves it as it was except that the bound
\* device's pending timeout is cancelled; neither queries the hardware status.
C7_RejectionKeepsStateButTimeout ==
    [][\A s \in Sch, slow \in BOOLEAN :
         LET d == sch[s].cdev
         IN  (EvalStep(s, slow) /\ WrongPath(s, slow))
             => /\ sch' = sch /\ rec' = rec /\ hw' = hw /\ oops' = oops
                /\ wq' = wq
                /\ Count(call'.tr, "status") = 0
                /\ slow => dev' = dev
                /\ (~slow /\ d = NULL) => dev' = dev
                /\ (~slow /\ d # NULL) =>
                       dev' = [dev EXCEPT ![d].timer = FALSE]]_vars

\* C7 witness: a disconnected device with a pending timeout has been
\* presented on the slow path and rejected.
C7_Witness ==
    /\ call.name = "sch_event"
    /\ call.args = <<1, TRUE>>
    /\ Count(call.tr, "status") = 0
    /\ sch[1].cdev = 1 /\ Disc(1) /\ dev[1].timer

\* C8 as stated: every call for a subchannel with a bound device cancels the
\* device's timeout, before it returns and before any classification.
C8_TimeoutAlwaysCancelled ==
    [][\A s \in Sch, slow \in BOOLEAN :
         LET d == sch[s].cdev
         IN  (EvalStep(s, slow) /\ d # NULL)
             => /\ ~dev'[d].timer
                /\ <<"set_timeout", d, 0>> \in Range(call'.tr)
                /\ Count(call'.tr, "status") > 0 =>
                       First(call'.tr, "set_timeout") < First(call'.tr, "status")]_vars

\* C8 as amended: every call for a subchannel with a bound device, except the
\* call rejected because a disconnected device is presented on the slow
\* path, cancels the device's timeout before it returns and before any
\* classification; that rejected call leaves the timeout as it was.
C8_TimeoutCancelledUnlessDiscSlow ==
    [][\A s \in Sch, slow \in BOOLEAN :
         LET d == sch[s].cdev
         IN  (EvalStep(s, slow) /\ d # NULL)
             => IF Disc(d) /\ slow
                THEN /\ dev'[d].timer = dev[d].timer
                     /\ Count(call'.tr, "set_timeout") = 0
                ELSE /\ ~dev'[d].timer
                     /\ <<"set_timeout", d, 0>> \in Range(call'.tr)
                     /\ Count(call'.tr, "status") > 0 =>
                            First(call'.tr, "set_timeout") < First(call'.tr, "status")]_vars

\* C8 witness: a call that went on to classify has cancelled the timeout of
\* the bound device first.
C8_Witness ==
    /\ call.name = "sch_event"
    /\ Count(call.tr, "status") = 1
    /\ Count(call.tr, "set_timeout") >= 1
    /\ call.tr[2] = <<"set_timeout", 1, 0>>
    /\ call.action = "NONE"

\* C9 as stated: every wrong-path call returns -EAGAIN.
C9_RejectionReturnsEAGAIN ==
    [][\A s \in Sch, slow \in BOOLEAN :
         (EvalStep(s, slow) /\ WrongPath(s, slow)) => call'.ret = -EAGAIN]_vars

\* C9 as amended: a device that is not disconnected (or no device) presented
\* on the fast path is rejected with -EAGAIN; a disconnected device presented
\* on the slow path is rejected with the success value 0.
C9_RejectionReturn ==
    [][\A s \in Sch, slow \in BOOLEAN :
         (EvalStep(s, slow) /\ WrongPath(s, slow))
         => /\ call'.returned
            /\ Count(call'.tr, "status") = 0
            /\ call'.ret = IF slow THEN 0 ELSE -EAGAIN]_vars

\* C9 witness: a fast-path call for a device that is not disconnected has
\* returned -EAGAIN.
C9_Witness ==
    /\ call.name = "sch_event"
    /\ call.args = <<1, FALSE>>
    /\ call.ret = -EAGAIN
    /\ sch[1].cdev = 1 /\ ~Disc(1)

NextRecovery ==
    \/ \E d \in Dev, st \in DevStates : FsmState(d, st)
    \/ ScheduleRecovery
    \/ Tick
    \/ TimerFire
    \/ RecoveryWork

SpecRecovery == InitEval /\ [][NextRecovery]_vars

\* C10: a call of ccw_device_schedule_recovery() made while the recovery
\* timer is pending and the phase is 0 changes neither the timer's expiry
\* nor the phase.
C10_ScheduleIdempotent ==
    [][(/\ call'.tick # call.tick
        /\ call'.name = "schedule_recovery"
        /\ rec.pending /\ rec.phase = 0) => rec' = rec]_vars

\* C10 witness: recovery has been scheduled again while the phase 0 timer
\* was pending and had already run for a while.
C10_Witness ==
    /\ call.name = "schedule_recovery"
    /\ rec.pending /\ rec.phase = 0
    /\ rec.remaining < recovery_delay[1]

\* ------------------------------------------- the binding table (SpecReloc)
\* The subchannels whose bound-device reference names d.
NamedBy(d) == {s \in SchAll : sch[s].cdev = d}

\* C1: in every state the work items leave (those of their failure branches
\* included) each device has exactly one parent, a real subchannel or the
\* pseudo subchannel; no device is named by the bound-device reference of two
\* subchannels; and a subchannel's bound-device reference names only a device
\* whose parent is that subchannel.
C1_BindingInvariant ==
    \A d \in Dev :
        Live(d) => /\ dev[d].parent \in SchAll
                   /\ Cardinality(NamedBy(d)) <= 1
                   /\ \A s \in NamedBy(d) : dev[d].parent = s

\* attach(s, d) has taken effect: the four facts C2 is about.
Attached(s, d) ==
    /\ sch[s].cdev = d
    /\ dev[d].parent = s
    /\ dev[d].schid = s
    /\ dev[d].ccwlock = s

\* The handler whose trace is tr has bound, unbound or relocated s or d.
Involves(tr, s, d) ==
    \E i \in DOMAIN tr :
        \/ tr[i][1] = "set_cdev" /\ (tr[i][2] = s \/ tr[i][3] = d)
        \/ tr[i][1] = "device_move" /\ (tr[i][2] = d \/ tr[i][3] = s \/ tr[i][4] = s)
        \/ tr[i][1] = "attach" /\ (tr[i][2] = s \/ tr[i][3] = d)

\* C2: when a work item has run sch_attach_device(s, d) after reparenting d
\* onto s, then s's bound device is d, d's parent is s, d's stored subchannel
\* id is that of s and d's lock is the lock of s; and these four facts stay
\* true over every step that is not a bind, unbind or relocation of s or d.
C2_AttachBinds ==
    [][\A s \in Sch, d \in Dev :
         /\ (call'.tick # call.tick /\ <<"attach", s, d>> \in Range(call'.tr))
                => Attached(s, d)'
         /\ (Attached(s, d) /\ ~(call'.tick # call.tick
                                 /\ Involves(call'.tr, s, d)))
                => Attached(s, d)']_vars

\* C2 witness: the move to the orphanage of device 1 has relocated the
\* disconnected device 2 from subchannel 2 onto subchannel 1 and attached it.
C2_Witness ==
    /\ call.name = "ccw_device_move_to_orphanage"
    /\ call.args = <<1>>
    /\ <<"device_move", 2, 2, 1, TRUE>> \in Range(call.tr)
    /\ <<"attach", 1, 2>> \in Range(call.tr)
    /\ Attached(1, 2)

\* C3: every write of a subchannel's bound-device reference is made by a
\* writer that holds the lock of that subchannel.
C3_BindWritesLocked ==
    \A i \in Tags(call.tr, "set_cdev") : call.tr[i][4]

\* ----------------------------------------- the recovery timer (SpecRecovery)
\* This step is a call of ccw_device_schedule_recovery().
ScheduleStep == call'.tick # call.tick /\ call'.name = "schedule_recovery"

\* C11: ccw_device_schedule_recovery() sets the phase to 0 and arms the timer
\* at recovery_delay[0] exactly when no timer is pending or the phase is not
\* 0 (a pending timer of phase 1 or 2 is replaced), and else changes nothing;
\* after every call the phase is 0 and a timer is pending.
C11_ScheduleResets ==
    [][ScheduleStep =>
         /\ IF ~rec.pending \/ rec.phase # 0
            THEN /\ rec'.remaining = recovery_delay[1]
                 /\ <<"mod_timer", recovery_delay[1], rec.pending>>
                        \in Range(call'.tr)
            ELSE /\ rec' = rec
                 /\ Count(call'.tr, "mod_timer") = 0
         /\ rec'.phase = 0 /\ rec'.pending
         /\ rec'.work = rec.work]_vars

\* C11 witness: recovery has been scheduled while the phase 2 timer was
\* pending; the timer now runs for recovery_delay[0] in phase 0.
C11_Witness ==
    /\ call.name = "schedule_recovery"
    /\ <<"recovery_phase", 2, 0>> \in Range(call.tr)
    /\ <<"mod_timer", recovery_delay[1], TRUE>> \in Range(call.tr)
    /\ rec.pending /\ rec.phase = 0 /\ rec.remaining = recovery_delay[1]

\* This step is a run of recovery_work_func().
PassStep == call'.tick # call.tick /\ call'.name = "recovery_work_func"

\* The pass that starts now finds a device in DISCONNECTED or
\* DISCONNECTED_SENSE_ID on the bus.
PassFindsDisconnected == recovery_redo(World(NoChoice))

LastPhase == Len(recovery_delay) - 1

\* C12: the phase is always within 0..2; a firing that still finds a
\* disconnected device (no schedule() since the timer fired, so no timer is
\* pending) advances the phase by exactly one, saturating at the last entry
\* of the table, and arms the delay of the new phase, which is never shorter
\* than the one before: 3, 30, 300, 300, ...
C12_BackoffMonotone ==
    /\ [](rec.phase \in 0..LastPhase)
    /\ [][(PassStep /\ PassFindsDisconnected /\ ~rec.pending) =>
            /\ rec'.phase = IF rec.phase < LastPhase THEN rec.phase + 1
                             ELSE LastPhase
            /\ rec'.pending
            /\ rec'.remaining = recovery_delay[rec'.phase + 1]
            /\ rec'.remaining >= recovery_delay[rec.phase + 1]]_vars

\* C12 witness: a pass in the last phase has found a disconnected device and
\* armed the timer at the last delay again.
C12_Witness ==
    /\ call.name = "recovery_work_func"
    /\ <<"mod_timer", recovery_delay[3], FALSE>> \in Range(call.tr)
    /\ Count(call.tr, "recovery_phase") = 0
    /\ rec.phase = LastPhase /\ rec.pending

\* ------------------------------------ the recovery pass (SpecRecoveryPass)
\* Two registered devices whose state the FSM moves between offline,
\* disconnected and sensing, and the recovery timer.
NextRecoveryPass ==
    \/ \E d \in Dev, st \in {DEV_STATE_OFFLINE, DEV_STATE_DISCONNECTED,
                              DEV_STATE_DISCONNECTED_SENSE_ID} : FsmState(d, st)
    \/ ScheduleRecovery
    \/ Tick
    \/ TimerFire
    \/ RecoveryWork

SpecRecoveryPass == InitReloc /\ [][NextRecoveryPass]_vars

\* The number of verify events the handler whose trace is tr has delivered
\* to device d.
Verifies(tr, d) ==
    Cardinality({i \in DOMAIN tr : tr[i] = <<"fsm_event", d, "DEV_EVENT_VERIFY">>})

\* C13: a recovery pass delivers one verify event to every device on the bus
\* that is DISCONNECTED and none to any other device; it advances the phase
\* and arms the timer exactly if it found a device in DISCONNECTED or
\* DISCONNECTED_SENSE_ID and no timer is pending, and else leaves the timer
\* and the phase as they were.
C13_RecoveryPass ==
    [][PassStep =>
         /\ \A d \in Dev :
                Verifies(call'.tr, d) =
                    IF d \in OnBus(World(NoChoice))
                       /\ dev[d].state = DEV_STATE_DISCONNECTED THEN 1 ELSE 0
         /\ IF PassFindsDisconnected /\ ~rec.pending
            THEN /\ rec'.phase = IF rec.phase < LastPhase THEN rec.phase + 1
                                  ELSE LastPhase
                 /\ rec'.pending
                 /\ rec'.remaining = recovery_delay[rec'.phase + 1]
            ELSE /\ rec'.phase = rec.phase
                 /\ rec'.pending = rec.pending
                 /\ rec'.remaining = rec.remaining
                 /\ Count(call'.tr, "mod_timer") = 0]_vars

\* C13 witness: a pass has found device 1 DISCONNECTED and device 2 sensing;
\* it has poked device 1 only and armed the timer of the next phase.
C13_Witness ==
    /\ call.name = "recovery_work_func"
    /\ dev[1].state = DEV_STATE_DISCONNECTED
    /\ dev[2].state = DEV_STATE_DISCONNECTED_SENSE_ID
    /\ Verifies(call.tr, 1) = 1 /\ Verifies(call.tr, 2) = 0
    /\ <<"recovery_phase", 0, 1>> \in Range(call.tr)
    /\ rec.pending /\ rec.remaining = recovery_delay[2]

\* ------------------------------- the search for a replacing device (SpecSearch)
\* The relocation system, where an earlier relocation may have left a device
\* in the orphanage: device NumDev, disconnected, with one of the device
\* numbers.
InitSearch ==
    /\ \E st \in [Sch -> {DEV_STATE_OFFLINE, DEV_STATE_DISCONNECTED}],
          on \in Devno \cup {NULL} :
         /\ sch = [s \in SchAll |->
                     IF s = PSEUDO
                     THEN RegSch(NULL, IF on = NULL THEN 0 ELSE 1, 1, {})
                     ELSE IF s <= NumDevno /\ s <= NumDev
                     THEN RegSch(s, 1, s, Paths)
                     ELSE NoSch]
         /\ dev = [d \in Dev |->
                     IF d \in Sch /\ d <= NumDevno
                     THEN RegDev(d, d, st[d], FALSE)
                     ELSE IF d = NumDev /\ on # NULL
                     THEN RegDev(PSEUDO, on, DEV_STATE_DISCONNECTED, FALSE)
                     ELSE NoDev]
    /\ hw = [s \in Sch |-> HwOk(IF s <= NumDevno THEN s ELSE 1)]
    /\ rec = NoRec
    /\ oops = FALSE
    /\ wq = <<>>
    /\ ccw_device_init_count = 0
    /\ call = NoCall

NextSearch ==
    \/ \E s \in Sch, n \in Devno : Exchange(s, n)
    \/ \E d \in Dev : FsmReprobe(d)
    \/ \E s \in Sch : ProbeSch(s)
    \/ SlowWork

SpecSearch == InitSearch /\ [][NextSearch]_vars

\* The devices get_disc_ccwdev_by_dev_id() can return for device number n
\* when device d has just been moved away, and the devices of the orphanage
\* with device number n (d itself is in the orphanage by then).
DiscCands(n, d) ==
    {x \in OnBus(World(NoChoice)) :
        /\ x # d /\ dev[x].state = DEV_STATE_DISCONNECTED
        /\ dev[x].parent # PSEUDO /\ dev[x].devno = n}

OrphCands(n, d) ==
    {x \in OnBus(World(NoChoice)) :
        (x = d \/ dev[x].parent = PSEUDO) /\ dev[x].devno = n}

\* The devices the handler whose trace is tr has tried to reparent to s.
MovedTo(tr, s) ==
    {tr[i][2] : i \in {j \in Tags(tr, "device_move") : tr[j][4] = s}}

\* The devices the handler has queued ccw_device_move_to_sch for.
QueuedMove(tr) ==
    {tr[i][2] : i \in {j \in Tags(tr, "queue_work") :
                          tr[j][3] = "ccw_device_move_to_sch"}}

\* A step of ccw_device_move_to_orphanage(d) whose move to the orphanage
\* has succeeded.
OrphanedStep(d) ==
    /\ call'.tick # call.tick
    /\ call'.name = "ccw_device_move_to_orphanage" /\ call'.args = <<d>>
    /\ <<"device_move", d, dev[d].parent, PSEUDO, TRUE>> \in Range(call'.tr)

\* A step of io_subchannel_probe(s) that has reached the search.
ProbeSearchStep(s) ==
    /\ call'.tick # call.tick
    /\ call'.name = "io_subchannel_probe" /\ call'.args = <<s>>
    /\ <<"kzalloc", TRUE>> \in Range(call'.tr)

\* C14: once the device is in the orphanage, move-to-orphanage reparents
\* exactly one disconnected candidate onto the freed subchannel if there is
\* one (and leaves every orphan as it is), else exactly one orphaned
\* candidate if there is one, else allocates a new device; the probe of a
\* new subchannel picks its device in the same priority.
C14_SearchPriority ==
    [][/\ \A d \in Dev : OrphanedStep(d) =>
            LET s  == dev[d].parent
                n  == sch[s].devno
                mv == MovedTo(call'.tr, s)
                nm == Cardinality({j \in Tags(call'.tr, "device_move") :
                                      call'.tr[j][4] = s})
            IN  IF DiscCands(n, d) # {}
                THEN /\ nm = 1 /\ mv \subseteq DiscCands(n, d)
                     /\ Count(call'.tr, "kzalloc") = 0
                     /\ \A o \in OrphCands(n, d) \ {d} : dev'[o] = dev[o]
                ELSE IF OrphCands(n, d) # {}
                THEN /\ nm = 1 /\ mv \subseteq OrphCands(n, d)
                     /\ Count(call'.tr, "kzalloc") = 0
                ELSE /\ nm = 0 /\ Count(call'.tr, "kzalloc") = 1
       /\ \A s \in Sch : ProbeSearchStep(s) =>
            LET n == hw[s].dev
                q == QueuedMove(call'.tr)
            IN  IF DiscCands(n, NULL) # {}
                THEN /\ Cardinality(q) = 1 /\ q \subseteq DiscCands(n, NULL)
                     /\ Count(call'.tr, "kzalloc") = 1
                     /\ \A o \in OrphCands(n, NULL) :
                            /\ dev'[o].parent = PSEUDO
                            /\ ~dev'[o].kpend \/ dev[o].kpend
                ELSE IF OrphCands(n, NULL) # {}
                THEN /\ Cardinality(q) = 1 /\ q \subseteq OrphCands(n, NULL)
                     /\ Count(call'.tr, "kzalloc") = 1
                ELSE /\ q = {} /\ Count(call'.tr, "kzalloc") = 2]_vars

\* C14 witness: device 1 has been moved to the orphanage while the
\* disconnected device 2 and the orphan NumDev both had the device number
\* that appeared on subchannel 1; device 2 has been relocated and the orphan
\* is still in the orphanage.
C14_Witness ==
    /\ call.name = "ccw_device_move_to_orphanage" /\ call.args = <<1>>
    /\ <<"device_move", 1, 1, PSEUDO, TRUE>> \in Range(call.tr)
    /\ <<"device_move", 2, 2, 1, TRUE>> \in Range(call.tr)
    /\ dev[NumDev].devno = dev[2].devno
    /\ dev[NumDev].parent = PSEUDO /\ dev[2].parent = 1
    /\ sch[1].cdev = 2

\* The devices that hold a child reference on subchannel s in dv.
KidsOf(dv, s) == {x \in Dev : dv[x].alloc = "live" /\ dv[x].parent = s}

\* C15: when ccw_device_move_to_orphanage completes after the move to the
\* orphanage, in whichever branch, the reference count of the freed
\* subchannel is its count before, less the reference of the moved device
\* (and less the registration's reference when the subchannel has been
\* unregistered), plus one for every device parented on it at the end; no
\* reference is dropped on it after its last holder has gone.
C15_RefsBalance ==
    [][\A d \in Dev : OrphanedStep(d) =>
          LET s == dev[d].parent
          IN  /\ <<"use_after_free", "sch", s>> \notin Range(call'.tr)
              /\ sch'[s].ref = sch[s].ref - 1
                                 - (IF sch[s].reg /\ ~sch'[s].reg THEN 1 ELSE 0)
                                 + Cardinality(KidsOf(dev', s))]_vars

\* The positions of the failed reparents in the trace tr.
FailedMoves(tr) == {i \in Tags(tr, "device_move") : ~tr[i][5]}

RelocStep ==
    /\ call'.tick # call.tick
    /\ call'.name \in {"ccw_device_move_to_orphanage", "ccw_device_move_to_sch"}

\* C16: when the reparent of a device onto its new subchannel fails in
\* sch_attach_disconnected_device, sch_attach_orphaned_device or
\* ccw_device_move_to_sch, the reference taken on the new parent is put
\* again, the device keeps its parent, and the former parent keeps its
\* reference count (but for the reference of the device that the same work
\* item has just moved into the orphanage) and its bound device.
C16_FailedMoveRollsBack ==
    [][RelocStep =>
         \A i \in FailedMoves(call'.tr) :
            LET x    == call'.tr[i][2]
                from == call'.tr[i][3]
                to   == call'.tr[i][4]
                orph == <<"device_move", call'.args[1], to, PSEUDO, TRUE>>
                            \in Range(call'.tr)
            IN  to # PSEUDO =>
                  /\ \E j \in Tags(call'.tr, "put_sch") :
                        j > i /\ call'.tr[j][2] = to
                  /\ dev'[x].parent = from /\ dev[x].parent = from
                  /\ sch'[from].ref = sch[from].ref
                         + (IF orph /\ from = PSEUDO THEN 1 ELSE 0)
                  /\ sch'[from].cdev = sch[from].cdev]_vars

\* C17: when a reparent fails in ccw_device_move_to_orphanage (the move to
\* the orphanage or the move of the replacing device), or the allocation of
\* the new device fails, the handler unregisters the subchannel the device
\* was on.
C17_FailureUnregisters ==
    [][\A d \in Dev :
          (/\ call'.tick # call.tick
           /\ call'.name = "ccw_device_move_to_orphanage" /\ call'.args = <<d>>
           /\ \/ FailedMoves(call'.tr) # {}
              \/ <<"kzalloc", FALSE>> \in Range(call'.tr))
          => /\ <<"unreg", dev[d].parent>> \in Range(call'.tr)
             /\ ~sch'[dev[d].parent].reg]_vars

\* The positions of the successful reparents onto a real subchannel.
Relocations(tr) ==
    {i \in Tags(tr, "device_move") : tr[i][5] /\ tr[i][4] # PSEUDO}

\* The number of put_device() calls on subchannel s after position i of the
\* trace tr (a put on a freed subchannel is recorded as a use after free).
PutsAfter(tr, i, s) ==
    Cardinality({j \in DOMAIN tr : /\ j > i
                                    /\ tr[j] \in {<<"put_sch", s>>,
                                                  <<"use_after_free", "sch", s>>}})

\* C18: a work item that has relocated a device onto a subchannel has
\* unregistered the device's former parent if that is a real subchannel; if
\* it is the pseudo subchannel, the work item has not unregistered it, has
\* not written its bound device and has put exactly one reference on it.
C18_PseudoNeverUnregistered ==
    /\ [](sch[PSEUDO].reg /\ sch[PSEUDO].cdev = NULL)
    /\ [][RelocStep =>
            \A i \in Relocations(call'.tr) :
               LET from == call'.tr[i][3]
               IN  IF from # PSEUDO
                   THEN /\ ~sch'[from].reg
                        /\ sch[from].reg => <<"unreg", from>> \in Range(call'.tr)
                   ELSE /\ \A j \in Tags(call'.tr, "unreg")
                                     \cup Tags(call'.tr, "set_cdev") :
                               call'.tr[j][2] # PSEUDO
                        /\ PutsAfter(call'.tr, i, PSEUDO) = 1]_vars

\* C18 witness: ccw_device_move_to_sch has moved an orphaned device onto
\* its new subchannel and the pseudo subchannel is still registered.
C18_Witness ==
    /\ call.name = "ccw_device_move_to_sch"
    /\ \E i \in Relocations(call.tr) : call.tr[i][3] = PSEUDO
    /\ <<"put_sch", PSEUDO>> \in Range(call.tr)
    /\ <<"unreg", PSEUDO>> \notin Range(call.tr)
    /\ sch[PSEUDO].reg

\* The positions before/after position i at which the trace tr holds entry e.
Before(tr, i, e) == {j \in DOMAIN tr : j < i /\ tr[j] = e}

After(tr, i, e) == {j \in DOMAIN tr : j > i /\ tr[j] = e}

\* The devices whose parent is a subchannel without references.
Unparented == {x \in Dev : dev[x].alloc = "live" /\ sch[dev[x].parent].freed}

\* C19: in every relocation a reference on the destination is taken before
\* the reparent; the reference on the source is released after a reparent
\* that has succeeded and not at all after one that has failed; a live
\* device always has a parent that holds at least one reference.
C19_AcquireBeforeRelease ==
    /\ [](Unparented = {})
    /\ [][RelocStep =>
            \A i \in Tags(call'.tr, "device_move") :
               LET from == call'.tr[i][3]
                   to   == call'.tr[i][4]
               IN  /\ Before(call'.tr, i, <<"get_sch", to>>) # {}
                   /\ IF call'.tr[i][5]
                      THEN After(call'.tr, i, <<"put_sch", from>>) # {}
                      ELSE from # to =>
                             /\ After(call'.tr, i, <<"put_sch", from>>) = {}
                             /\ After(call'.tr, i, <<"use_after_free", "sch", from>>)
                                   = {}]_vars

\* ------------------------------------ online and offline (SpecOnline)
\* The answers set_online and set_offline can be given: those of the FSM
\* and of the driver's callback.
OnlineChoices ==
    {[NoChoice EXCEPT !.online_ok = o, !.offline_ok = f, !.final = st,
                      !.cb = c, !.cb_ret = r] :
        o \in BOOLEAN, f \in BOOLEAN, c \in BOOLEAN, r \in {0, -EINVAL},
        st \in {DEV_STATE_ONLINE, DEV_STATE_OFFLINE, DEV_STATE_NOT_OPER,
                DEV_STATE_BOXED}}

SetOnline(d) ==
    /\ ~oops /\ (IF d = NULL THEN TRUE ELSE Live(d))
    /\ \E ch \in OnlineChoices :
         Commit(ccw_device_set_online(World(ch), d), "ccw_device_set_online", <<d>>)

SetOffline(d) ==
    /\ ~oops /\ (IF d = NULL THEN TRUE ELSE Live(d))
    /\ \E ch \in OnlineChoices :
         Commit(ccw_device_set_offline(World(ch), d), "ccw_device_set_offline", <<d>>)

NextOnline ==
    \/ \E d \in Dev, st \in {DEV_STATE_NOT_OPER, DEV_STATE_OFFLINE,
                              DEV_STATE_ONLINE, DEV_STATE_BOXED,
                              DEV_STATE_DISCONNECTED} : FsmState(d, st)
    \/ \E d \in Dev \cup {NULL} : SetOnline(d)
    \/ \E d \in Dev \cup {NULL} : SetOffline(d)

SpecOnline == InitEval /\ [][NextOnline]_vars

\* C20: a ccw_device_set_online() or ccw_device_set_offline() that returns
\* a failure leaves the device's online flag and its reference count as they
\* were before the call.
C20_FailureRestores ==
    [][\A d \in Dev :
          (/\ call'.tick # call.tick
           /\ call'.name \in {"ccw_device_set_online", "ccw_device_set_offline"}
           /\ call'.args = <<d>> /\ call'.ret # 0)
          => /\ dev'[d].online = dev[d].online
             /\ dev'[d].ref = dev[d].ref]_vars

\* A step of ccw_device_set_online(d) that has returned a failure.
OnlineFails(d) ==
    /\ call'.tick # call.tick
    /\ call'.name = "ccw_device_set_online" /\ call'.args = <<d>>
    /\ call'.ret # 0

\* C21: the value ccw_device_set_online() returns when the FSM has not
\* settled in ONLINE (the driver is not asked) is never the value it returns
\* when the driver's set_online callback has rejected the device and the
\* device has been taken offline again.
C21_FailureSignalsDiffer ==
    [][\A d \in Dev :
          (/\ OnlineFails(d) /\ <<"drv_set_online", d>> \in Range(call'.tr)
           /\ dev'[d].state = DEV_STATE_OFFLINE)
          => \A ch \in OnlineChoices :
                LET w == ccw_device_set_online(World(ch), d)
                IN  (w.ret # 0 /\ <<"drv_set_online", d>> \notin Range(w.tr)
                     /\ Count(w.tr, "lock") > 0 /\ w.dev[d].state # DEV_STATE_ONLINE
                     /\ ch.online_ok)
                    => w.ret # call'.ret]_vars

\* --------------------------- concurrent online/offline requests (SpecOnoff)
StoreCount == 2        \* the length of the string written to the attribute

StoreChoices ==
    {[ch EXCEPT !.module_ok = m, !.stlck_ok = k] :
        ch \in OnlineChoices, m \in BOOLEAN, k \in BOOLEAN}

\* The callers that are inside a request for device d.
InFlight(d) == {c \in Caller : dev[d].pc[c] # <<"idle">>}

\* Caller c writes buf to the online attribute of device d.  (A forced
\* offline of a disconnected device is written once.)
StoreEnter(c, d, buf) ==
    LET w == online_store_enter(World(NoChoice), d)
    IN  /\ ~oops /\ Live(d) /\ dev[d].reg /\ dev[d].pc[c] = <<"idle">>
        /\ ~dev[d].kpend /\ dev[d].ref <= MaxRef
        /\ IF w.returned THEN Commit(w, "online_store", <<c, d>>)
           ELSE Commit([w EXCEPT !.dev[d].pc[c] = <<"store", buf>>],
                       "enter", <<c, d>>)

\* ... and its request runs to the end.
StoreRun(c, d) ==
    /\ ~oops /\ Live(d) /\ dev[d].pc[c][1] = "store"
    /\ \E ch \in StoreChoices :
         Commit([online_store(World(ch), d, dev[d].pc[c][2], StoreCount)
                    EXCEPT !.dev[d].pc[c] = <<"idle">>],
                "online_store", <<c, d>>)

\* Caller c calls ccw_device_set_online() or ccw_device_set_offline() for
\* device d: the call returns at once, or goes on up to its blocking point.
DirectEnter(c, d, func) ==
    /\ ~oops /\ Live(d) /\ dev[d].pc[c] = <<"idle">> /\ dev[d].ref <= MaxRef
    /\ \E ch \in OnlineChoices :
         LET w == IF func = "ccw_device_set_online"
                  THEN ccw_device_set_online_enter(World(ch), d)
                  ELSE ccw_device_set_offline_enter(World(ch), d)
         IN  IF w.returned THEN Commit(w, func, <<c, d>>)
             ELSE Commit([w EXCEPT !.dev[d].pc[c] = <<func>>], "enter", <<c, d>>)

\* ... and goes on from there to its return.
DirectFinish(c, d) ==
    /\ ~oops /\ Live(d)
    /\ dev[d].pc[c][1] \in {"ccw_device_set_online", "ccw_device_set_offline"}
    /\ \E ch \in OnlineChoices :
         LET w == [World(ch) EXCEPT !.dev[d].pc[c] = <<"idle">>]
         IN  Commit(IF dev[d].pc[c][1] = "ccw_device_set_online"
                    THEN ccw_device_set_online_finish(w, d)
                    ELSE ccw_device_set_offline_finish(w, d),
                    dev[d].pc[c][1], <<c, d>>)

NextOnoff ==
    \/ \E d \in Dev, st \in {DEV_STATE_OFFLINE, DEV_STATE_ONLINE,
                              DEV_STATE_BOXED, DEV_STATE_DISCONNECTED} :
         FsmState(d, st)
    \/ \E c \in Caller, d \in Dev, buf \in StoreBufs : StoreEnter(c, d, buf)
    \/ \E c \in Caller, d \in Dev : StoreRun(c, d)
    \/ \E c \in Caller, d \in Dev,
          func \in {"ccw_device_set_online", "ccw_device_set_offline"} :
         DirectEnter(c, d, func)
    \/ \E c \in Caller, d \in Dev : DirectFinish(c, d)

SpecOnoff == InitEval /\ [][NextOnoff]_vars

\* A step in which caller c has asked for a transition of device d while
\* another caller was inside a request for d.
SecondRequest(c, d) ==
    /\ call'.tick # call.tick
    /\ call'.name \in {"online_store", "enter", "ccw_device_set_online",
                       "ccw_device_set_offline"}
    /\ call'.args = <<c, d>>
    /\ dev[d].pc[c] = <<"idle">> /\ InFlight(d) # {}

\* C22: at most one caller is inside an online/offline request for a device;
\* a request made while another is in flight returns a failure at once and
\* leaves the device and the subchannels as they were; the request that has
\* set the in-flight marker has cleared it when it returns.
C22_OneTransitionInFlight ==
    /\ [](\A d \in Dev : Cardinality(InFlight(d)) <= 1)
    /\ [][\A c \in Caller, d \in Dev :
            /\ SecondRequest(c, d) =>
                  /\ call'.name # "enter" /\ call'.ret < 0
                  /\ dev' = dev /\ sch' = sch /\ wq' = wq
            /\ (/\ call'.tick # call.tick /\ call'.args = <<c, d>>
                /\ dev[d].pc[c][1] = "store")
               => dev'[d].onoff = 0]_vars

\* The device objects that are allocated in dv.
Allocated(dv) == {x \in Dev : dv[x].alloc = "live"}

\* C23: when ccw_device_move_to_orphanage finds no replacing device it
\* creates a device on the freed subchannel, binds it and starts its
\* recognition; when the creation or the start of the recognition fails it
\* unregisters the subchannel, leaves no new device allocated and touches
\* no reference count of an object that has been freed.
C23_CreateOrUnwind ==
    [][\A d \in Dev :
          (OrphanedStep(d) /\ Count(call'.tr, "kzalloc") > 0) =>
             LET s   == dev[d].parent
                 new == Allocated(dev') \ Allocated(dev)
             IN  IF \E x \in Dev :
                       <<"set_state", x, DEV_STATE_SENSE_ID>> \in Range(call'.tr)
                 THEN /\ Cardinality(new) = 1
                      /\ \A x \in new : /\ dev'[x].parent = s /\ sch'[s].cdev = x
                                        /\ dev'[x].state = DEV_STATE_SENSE_ID
                 ELSE /\ new = {}
                      /\ <<"unreg", s>> \in Range(call'.tr) /\ ~sch'[s].reg
                      /\ Count(call'.tr, "use_after_free") = 0]_vars

\* ------------------------------------------------ the purge (SpecPurge)
\* Two registered devices, offline, disconnected or being sensed again.
InitPurge ==
    /\ \E st \in [Sch -> {DEV_STATE_OFFLINE, DEV_STATE_DISCONNECTED,
                           DEV_STATE_SENSE_ID}] :
         /\ sch = [s \in SchAll |->
                     IF s = PSEUDO THEN RegSch(NULL, 0, 1, {})
                     ELSE IF s <= NumDevno /\ s <= NumDev
                     THEN RegSch(s, 1, s, Paths)
                     ELSE NoSch]
         /\ dev = [d \in Dev |->
                     IF d \in Sch /\ d <= NumDevno
                     THEN RegDev(d, d, st[d], FALSE)
                     ELSE NoDev]
    /\ hw = [s \in Sch |-> HwOk(IF s <= NumDevno THEN s ELSE 1)]
    /\ rec = NoRec
    /\ oops = FALSE
    /\ wq = <<>>
    /\ ccw_device_init_count = 0
    /\ call = NoCall

\* The exclusion lists and the answers of signal_pending() for one scan.
PurgeChoices ==
    {[NoChoice EXCEPT !.blacklist = bl, !.signal = sg] :
        bl \in SUBSET Devno, sg \in [1..NumDev -> BOOLEAN]}

\* cio_ignore purge.  (No scan while a device holds more than MaxRef
\* references.)
Purge ==
    /\ ~oops /\ \A d \in Dev : dev[d].ref <= MaxRef
    /\ \E ch \in PurgeChoices :
         Commit(ccw_purge_blacklisted(World(ch)), "ccw_purge_blacklisted",
                <<ch.blacklist, ch.signal>>)

NextPurge ==
    \/ \E d \in Dev, st \in {DEV_STATE_OFFLINE, DEV_STATE_DISCONNECTED} :
         FsmState(d, st)
    \/ \E d \in Dev : RecogDone(d, DEV_STATE_OFFLINE)
    \/ Purge
    \/ SlowWork

SpecPurge == InitPurge /\ [][NextPurge]_vars

PurgeStep == call'.tick # call.tick /\ call'.name = "ccw_purge_blacklisted"

\* The number of devices of the bus that come before d in the scan.
Rank(d) == Cardinality({x \in OnBus(World(NoChoice)) : x < d})

\* The devices a scan visits when sg[k] is the answer of signal_pending()
\* at the k-th visit: those with no pending signal at an earlier visit.
Scanned(sg) ==
    {d \in OnBus(World(NoChoice)) : \A k \in 1..Rank(d) : ~sg[k]}

\* C24: a purge visits the devices of the bus up to the first visit at which
\* a signal is pending; for every visited device that is OFFLINE and on the
\* exclusion list ccw_device_call_sch_unregister is the device's pending work
\* and one reference has been taken for every work item queued; every other
\* device is unchanged.
C24_PurgeQueuesOfflineListed ==
    [][PurgeStep =>
         LET bl == call'.args[1]
             sg == call'.args[2]
         IN  \A d \in Dev :
                IF d \in Scanned(sg) /\ dev[d].state = DEV_STATE_OFFLINE
                   /\ dev[d].devno \in bl
                THEN /\ <<"purge_fn", d>> \in Range(call'.tr)
                     /\ dev'[d].kpend
                     /\ dev'[d].kfunc = "ccw_device_call_sch_unregister"
                     /\ dev'[d].ref - dev[d].ref = IF dev[d].kpend THEN 0 ELSE 1
                     /\ dev'[d].state = dev[d].state
                ELSE /\ dev'[d] = dev[d]
                     /\ <<"purge_fn", d>> \in Range(call'.tr)
                            <=> d \in Scanned(sg)]_vars

\* The holders of a reference on subchannel s: its registration and the
\* devices parented on it.
SchHolders(s) ==
    Cardinality(KidsOf(dev, s)) + (IF sch[s].reg THEN 1 ELSE 0)

\* C25: the reference count of a subchannel is at least the number of its
\* holders, and a device that a subchannel is bound to, that is online or
\* whose work is queued has not been freed.
C25_RefsCoverHolders ==
    /\ \A s \in SchAll : sch[s].ref >= SchHolders(s)
    /\ \A s \in SchAll : sch[s].cdev # NULL => dev[sch[s].cdev].alloc = "live"
    /\ \A d \in Dev :
          (dev[d].alloc = "freed" => ~dev[d].kpend)
          /\ (dev[d].alloc = "live" =>
                 dev[d].ref >= 1 + (IF dev[d].online THEN 1 ELSE 0))

\* A step of io_subchannel_probe(s).
ProbeStep(s) ==
    /\ call'.tick # call.tick
    /\ call'.name = "io_subchannel_probe" /\ call'.args = <<s>>

\* The devices the step has allocated (whether or not they survive it).
Created == {x \in Dev : dev[x].alloc = "none" /\ dev'[x].alloc # "none"}

TagsOf(tr, tag, x) == {i \in Tags(tr, tag) : tr[i][2] = x}

\* C27: a work item that has reparented a device onto a real subchannel
\* leaves the device allocated, registered, in its state and with its device
\* number; it has attached the device to the new subchannel and has put at
\* most the one reference taken for the work item, after the attach; when
\* the former parent is a real subchannel, its bound-device reference has
\* been cleared before it was unregistered and before the attach, and the
\* unregistration has neither removed the device from the bus nor set it
\* to NOT_OPERATIONAL.
C27_MigrationKeepsDevice ==
    [][RelocStep =>
         \A i \in Relocations(call'.tr) :
            LET tr   == call'.tr
                d    == tr[i][2]
                from == tr[i][3]
                to   == tr[i][4]
                att  == {j \in Tags(tr, "attach") : tr[j] = <<"attach", to, d>>}
                clr  == {j \in TagsOf(tr, "set_cdev", from) : j > i /\ tr[j][3] = NULL}
            IN  /\ att # {} /\ \A j \in att : j > i
                /\ dev'[d].alloc = "live" /\ dev'[d].reg = dev[d].reg
                /\ dev'[d].devno = dev[d].devno
                /\ dev'[d].state = dev[d].state
                /\ dev'[d].parent = to /\ sch'[to].cdev = d
                /\ TagsOf(tr, "device_del", d) = {}
                /\ \A j \in TagsOf(tr, "set_state", d) : tr[j][3] # DEV_STATE_NOT_OPER
                /\ Cardinality(TagsOf(tr, "put_cdev", d)) <= 1
                /\ \A j \in TagsOf(tr, "put_cdev", d) : \A k \in att : k < j
                /\ from # PSEUDO =>
                      /\ clr # {}
                      /\ \A k \in TagsOf(tr, "unreg", from) :
                            \E j \in clr : j < k
                      /\ \A k \in att : \E j \in clr : j < k
                      /\ \A k \in TagsOf(tr, "unreg", from) : \A l \in att : k < l]_vars

\* C27 witness: ccw_device_move_to_sch has moved a disconnected device from
\* its registered subchannel onto another one, and the former subchannel has
\* been unregistered with the device still on the bus.
C27_Witness ==
    /\ call.name = "ccw_device_move_to_sch"
    /\ \E i \in Relocations(call.tr) :
          LET d == call.tr[i][2]  from == call.tr[i][3]
          IN  /\ from # PSEUDO
              /\ <<"unreg", from>> \in Range(call.tr)
              /\ dev[d].reg /\ dev[d].state = DEV_STATE_DISCONNECTED
              /\ sch[from].cdev = NULL /\ ~sch[from].reg

\* The number of acquisitions of lock l less the number of its releases in
\* the first n entries of trace tr.
Depth(tr, n, l) ==
    Cardinality({j \in 1..n : tr[j] = <<"lock", l>>})
      - Cardinality({j \in 1..n : tr[j] = <<"unlock", l>>})

\* C28: in every call of io_subchannel_sch_event(s, slow) the subchannel's
\* lock is taken first, is never taken while held nor released while free,
\* is held when the status is read, the driver is asked, the reprobe is
\* triggered and the configuration is committed, is free when the subchannel
\* is unregistered and when the probe is requested, and has been released as
\* often as it has been taken when the call returns.
C28_EvaluatorLockBalanced ==
    [][\A s \in Sch, slow \in BOOLEAN : EvalStep(s, slow) =>
          LET tr == call'.tr
              n  == Len(tr)
          IN  /\ n > 0 /\ tr[1] = <<"lock", s>>
              /\ \A i \in 1..n :
                    /\ tr[i] = <<"lock", s>> => Depth(tr, i - 1, s) = 0
                    /\ tr[i] = <<"unlock", s>> => Depth(tr, i - 1, s) = 1
                    /\ tr[i][1] \in {"status", "notify", "reprobe",
                                     "commit_config"}
                          => Depth(tr, i, s) = 1
                    /\ tr[i][1] \in {"unreg", "unreg_noop", "probe"}
                          => Depth(tr, i, s) = 0
              /\ call'.returned => Depth(tr, n, s) = 0]_vars

\* C28 witness: a slow-path evaluation has unregistered the subchannel and
\* requested the probe with the lock free, having released it twice.
C28_Witness ==
    /\ call.name = "sch_event" /\ call.returned
    /\ call.action = "UNREGISTER_PROBE"
    /\ LET tr == call.tr
           s  == call.args[1]
       IN  /\ \E i \in Tags(tr, "unreg") : Depth(tr, i, s) = 0
           /\ \E i \in Tags(tr, "probe") : Depth(tr, i, s) = 0
           /\ Cardinality({i \in DOMAIN tr : tr[i] = <<"lock", s>>}) >= 2
           /\ Depth(tr, Len(tr), s) = 0

\* The subchannel locks held after the first n entries of trace tr.
HeldAt(tr, n) == {l \in SchAll : Depth(tr, n, l) > 0}

\* C29: no handler holds the locks of two subchannels (the pseudo
\* subchannel included) at any point, and every handler has released what
\* it has taken when it ends; ccw_device_move_to_sch has released the
\* former parent's lock before it takes the lock of the destination.
C29_OneLockAtATime ==
    [][call'.tick # call.tick =>
         LET tr == call'.tr
         IN  /\ \A n \in 1..Len(tr) : Cardinality(HeldAt(tr, n)) <= 1
             /\ call'.returned => HeldAt(tr, Len(tr)) = {}
             /\ call'.name = "ccw_device_move_to_sch" =>
                   \A i \in Relocations(tr) :
                      LET from == tr[i][3]
                          to   == tr[i][4]
                      IN  from # PSEUDO =>
                            \A k \in DOMAIN tr :
                               (k > i /\ tr[k] = <<"lock", to>>) =>
                                  \E j \in i..k :
                                     /\ tr[j] = <<"unlock", from>>
                                     /\ HeldAt(tr, k - 1) = {}]_vars

\* C29 witness: ccw_device_move_to_sch has moved a device between two real
\* subchannels, taking and releasing the lock of the former parent and then
\* the lock of the destination.
C29_Witness ==
    /\ call.name = "ccw_device_move_to_sch"
    /\ \E i \in Relocations(call.tr) :
          LET from == call.tr[i][3]  to == call.tr[i][4]
          IN  /\ from # PSEUDO /\ from # to
              /\ \E j, k \in DOMAIN call.tr :
                    /\ i < j /\ j < k
                    /\ call.tr[j] = <<"unlock", from>>
                    /\ call.tr[k] = <<"lock", to>>

\* C30: a call of io_subchannel_sch_event on the fast path neither
\* unregisters the subchannel nor requests a probe, and leaves the
\* subchannel registered with its bound device; a call that unregisters or
\* requests a probe is a call on the slow path for a device that is not
\* disconnected.
C30_FastPathNeverUnregisters ==
    [][\A s \in Sch :
          /\ EvalStep(s, FALSE) =>
                /\ \A i \in DOMAIN call'.tr :
                      call'.tr[i][1] \notin {"unreg", "unreg_noop", "probe",
                                            "device_del", "null_deref"}
                /\ call'.action \notin {"UNREGISTER", "UNREGISTER_PROBE"}
                /\ sch'[s].reg /\ sch'[s].cdev = sch[s].cdev
                /\ sch'[s].ref = sch[s].ref
          /\ \A slow \in BOOLEAN :
                (/\ EvalStep(s, slow)
                 /\ \E i \in DOMAIN call'.tr :
                       call'.tr[i][1] \in {"unreg", "probe"})
                => slow /\ ~Disc(sch[s].cdev)]_vars

\* ------------------------------------- online reference: the system
\* The driver core unbinds the driver of a registered device, or offers the
\* device to a driver again.
DriverRemove(d) ==
    /\ ~oops /\ Live(d) /\ dev[d].reg /\ dev[d].drv
    /\ \E ch \in OnlineChoices :
         Commit(ccw_device_remove(World(ch), d), "ccw_device_remove", <<d>>)

DriverProbe(d) ==
    /\ ~oops /\ Live(d) /\ dev[d].reg /\ ~dev[d].drv
    /\ \E b \in BOOLEAN :
         Commit(ccw_device_probe(World([NoChoice EXCEPT !.bind = b]), d),
                "ccw_device_probe", <<d>>)

NextOnlineRef ==
    \/ NextOnline
    \/ \E d \in Dev : DriverRemove(d)
    \/ \E d \in Dev : DriverProbe(d)

SpecOnlineRef == InitEval /\ [][NextOnlineRef]_vars

\* C31: whatever calls of ccw_device_set_online, ccw_device_set_offline and
\* ccw_device_remove have been made and however they ended, the reference
\* count of a device is its initial reference plus one if its online flag is
\* set; a call that changes the flag changes the count by one in the same
\* direction, and no other call changes the count.
C31_OnlineHoldsReference ==
    /\ [](\A d \in Dev : Live(d) =>
              dev[d].ref = 1 + (IF dev[d].online THEN 1 ELSE 0))
    /\ [][\A d \in Dev : (Live(d) /\ dev'[d].alloc = "live") =>
              dev'[d].ref - dev[d].ref =
                  (IF dev'[d].online THEN 1 ELSE 0)
                    - (IF dev[d].online THEN 1 ELSE 0)]_vars

\* C31 witness: the driver of an online device has been removed; the
\* online flag is clear and only the initial reference is left.
C31_Witness ==
    /\ call.name = "ccw_device_remove"
    /\ \E d \in Dev :
          /\ call.args = <<d>> /\ <<"put_cdev", d>> \in Range(call.tr)
          /\ Live(d) /\ ~dev[d].online /\ ~dev[d].drv /\ dev[d].ref = 1

\* C32: a call of io_subchannel_sch_event that selects UNREGISTER,
\* UNREGISTER_PROBE, REPROBE or DISC is a call for a subchannel with a bound
\* device, and no call dereferences a NULL device.
C32_ActionHasDevice ==
    [][\A s \in Sch, slow \in BOOLEAN : EvalStep(s, slow) =>
          /\ call'.action \in {"UNREGISTER", "UNREGISTER_PROBE", "REPROBE", "DISC"}
                => sch[s].cdev # NULL
          /\ Tags(call'.tr, "null_deref") = {}
          /\ call'.returned]_vars

\* C33: no handler queues the kick_work of a device whose kick_work is
\* already pending, and a handler that runs no work item leaves the function
\* of every pending kick_work as it was prepared.
C33_KickWorkNotRequeued ==
    [][call'.tick # call.tick =>
         /\ \A i \in Tags(call'.tr, "queue_work") : ~call'.tr[i][4]
         /\ Len(wq') >= Len(wq) =>
               \A d \in Dev : dev[d].kpend =>
                  dev'[d].kpend /\ dev'[d].kfunc = dev[d].kfunc]_vars

\* The devices whose recognition has been started and is neither over nor
\* yet handled by the register work item.
InRecognition ==
    {d \in Dev : /\ dev[d].alloc = "live"
                 /\ \/ dev[d].state = DEV_STATE_SENSE_ID
                    \/ dev[d].kpend /\ dev[d].kfunc = "io_subchannel_register"}

\* C34: ccw_device_init_count is never negative and is the number of
\* devices in recognition.
C34_InitCountBalanced ==
    /\ ccw_device_init_count >= 0
    /\ ccw_device_init_count = Cardinality(InRecognition)

\* ------------------------------------------------ channel-path events
CHP_VARY_OFF == "CHP_VARY_OFF"
CHP_VARY_ON == "CHP_VARY_ON"
CHP_OFFLINE == "CHP_OFFLINE"
CHP_ONLINE == "CHP_ONLINE"
ChpEvents == {CHP_VARY_OFF, CHP_VARY_ON, CHP_OFFLINE, CHP_ONLINE}

\* cio_update_schib(): the subchannel information block is read again, or
\* the device is gone.
cio_update_schib(w, s) == [w EXCEPT !.ret = IF w.ch.schib_ok THEN 0 ELSE -ENODEV]

io_subchannel_verify(w, s) ==
    LET d == sch_get_cdev(w, s)
    IN  IF d # NULL THEN dev_fsm_event(w, d, "DEV_EVENT_VERIFY") ELSE w

\* I/O is active on the subchannel and the path last used is the one of
\* the mask (w.ch.io_on_path).
check_for_io_on_path(w, s, mask) ==
    cio_update_schib(w, s).ret = 0 /\ w.ch.io_on_path

\* cio_clear() fails (the path mask is emptied and the device checked
\* again) or the internal operation is to be retried.
terminate_internal_io(w, s, d) ==
    IF ~w.ch.clear_ok
    THEN LET w1 == [w EXCEPT !.sch[s].lpm = {}]
         IN  IF w1.dev[d].online THEN dev_fsm_event(w1, d, "DEV_EVENT_VERIFY")
             ELSE Log(w1, <<"schedule_eval", s>>)
    ELSE Log([w EXCEPT !.dev[d].state = DEV_STATE_CLEAR_VERIFY],
             <<"set_state", d, DEV_STATE_CLEAR_VERIFY>>)

io_subchannel_terminate_path(w, s, mask) ==
    LET d == sch_get_cdev(w, s)
    IN  IF d = NULL THEN w
        ELSE IF check_for_io_on_path(w, s, mask)
        THEN IF w.dev[d].state = DEV_STATE_ONLINE
             THEN Log(w, <<"kill_io", d>>)
             ELSE dev_fsm_event(terminate_internal_io(w, s, d), d,
                                "DEV_EVENT_VERIFY")
        ELSE dev_fsm_event(w, d, "DEV_EVENT_VERIFY")

\* A CHP_ONLINE that adds the whole mask to the current path mask.
io_subchannel_chp_event_online_all(w, s, mask, event) ==
    IF mask = {} THEN [w EXCEPT !.ret = 0]
    ELSE CASE event = CHP_VARY_OFF ->
                  [io_subchannel_terminate_path(
                       [w EXCEPT !.sch[s].opm = @ \ mask, !.sch[s].lpm = @ \ mask],
                       s, mask) EXCEPT !.ret = 0]
           [] event = CHP_VARY_ON ->
                  [io_subchannel_verify(
                       [w EXCEPT !.sch[s].opm = @ \cup mask,
                                 !.sch[s].lpm = @ \cup mask], s) EXCEPT !.ret = 0]
           [] event = CHP_OFFLINE ->
                  IF cio_update_schib(w, s).ret # 0 THEN [w EXCEPT !.ret = -ENODEV]
                  ELSE [io_subchannel_terminate_path(w, s, mask) EXCEPT !.ret = 0]
           [] event = CHP_ONLINE ->
                  IF cio_update_schib(w, s).ret # 0 THEN [w EXCEPT !.ret = -ENODEV]
                  ELSE [io_subchannel_verify(
                            [w EXCEPT !.sch[s].lpm = @ \cup mask], s)
                          EXCEPT !.ret = 0]

\* mask is chp_ssd_get_mask(&sch->ssd_info, link): the paths of the
\* subchannel that use the channel path of the event.
io_subchannel_chp_event(w, s, mask, event) ==
    IF mask = {} THEN [w EXCEPT !.ret = 0]
    ELSE CASE event = CHP_VARY_OFF ->
                  [io_subchannel_terminate_path(
                       [w EXCEPT !.sch[s].opm = @ \ mask, !.sch[s].lpm = @ \ mask],
                       s, mask) EXCEPT !.ret = 0]
           [] event = CHP_VARY_ON ->
                  [io_subchannel_verify(
                       [w EXCEPT !.sch[s].opm = @ \cup mask,
                                 !.sch[s].lpm = @ \cup mask], s) EXCEPT !.ret = 0]
           [] event = CHP_OFFLINE ->
                  IF cio_update_schib(w, s).ret # 0 THEN [w EXCEPT !.ret = -ENODEV]
                  ELSE [io_subchannel_terminate_path(w, s, mask) EXCEPT !.ret = 0]
           [] event = CHP_ONLINE ->
                  IF cio_update_schib(w, s).ret # 0 THEN [w EXCEPT !.ret = -ENODEV]
                  ELSE [io_subchannel_verify(
                            [w EXCEPT !.sch[s].lpm =
                                          @ \cup (mask \cap w.sch[s].opm)], s)
                          EXCEPT !.ret = 0]

\* The answers of the hardware to one channel-path event.
ChpChoices ==
    {[NoChoice EXCEPT !.schib_ok = k, !.io_on_path = i, !.clear_ok = c] :
        k \in BOOLEAN, i \in BOOLEAN, c \in BOOLEAN}

\* The probe initialises the fields of a subchannel.
InitFields(s) ==
    /\ ~oops /\ sch[s].reg
    /\ \E o \in SUBSET Paths, a \in SUBSET Paths :
         Commit(io_subchannel_init_fields(
                    World([NoChoice EXCEPT !.opm = o, !.pam = a]), s),
                "io_subchannel_init_fields", <<s, o, a>>)

\* css reports a channel-path event to the driver of a subchannel.
ChpEvent(s, mask, event) ==
    /\ ~oops /\ sch[s].reg
    /\ \E ch \in ChpChoices :
         Commit(io_subchannel_chp_event(World(ch), s, mask, event),
                "io_subchannel_chp_event", <<s, mask, event>>)

\* Subchannel 1 after the initialisation of its fields, bound to device 1
\* or without a device.
InitChp ==
    /\ \E bound \in BOOLEAN, online \in BOOLEAN,
          o \in SUBSET Paths, a \in SUBSET Paths :
         /\ (~bound => ~online)
         /\ sch = [s \in SchAll |->
                     IF s = PSEUDO THEN RegSch(NULL, 0, 1, {})
                     ELSE IF s = 1
                     THEN [RegSch(IF bound THEN 1 ELSE NULL,
                                  IF bound THEN 1 ELSE 0, 1, a \cap o)
                             EXCEPT !.opm = o]
                     ELSE NoSch]
         /\ dev = [d \in Dev |->
                     IF d = 1 /\ bound
                     THEN RegDev(1, 1, IF online THEN DEV_STATE_ONLINE
                                       ELSE DEV_STATE_OFFLINE, online)
                     ELSE NoDev]
    /\ hw = [s \in Sch |-> HwOk(1)]
    /\ rec = NoRec
    /\ oops = FALSE
    /\ wq = <<>>
    /\ ccw_device_init_count = 0
    /\ call = NoCall

NextChp ==
    \/ \E s \in Sch : InitFields(s)
    \/ \E s \in Sch, mask \in SUBSET Paths, event \in ChpEvents :
         ChpEvent(s, mask, event)
    \/ \E d \in Dev, st \in {DEV_STATE_ONLINE, DEV_STATE_OFFLINE} : FsmState(d, st)

SpecChp == InitChp /\ [][NextChp]_vars

\* This step is a channel-path event of kind event for the paths mask of
\* subchannel s.
ChpStep(s, mask, event) ==
    /\ call'.tick # call.tick
    /\ call'.name = "io_subchannel_chp_event"
    /\ call'.args = <<s, mask, event>>

\* C35: the current path mask of a subchannel is always a subset of its
\* operational path mask; CHP_VARY_OFF takes the paths of the event out of
\* both masks, CHP_VARY_ON puts them into both, CHP_ONLINE puts into the
\* current mask those of them that are in the operational mask, and
\* CHP_OFFLINE adds no path to either mask.
C35_CurrentWithinOperational ==
    /\ [](\A s \in Sch : sch[s].lpm \subseteq sch[s].opm)
    /\ [][\A s \in Sch, mask \in SUBSET Paths :
            /\ ChpStep(s, mask, CHP_VARY_OFF) =>
                  /\ sch'[s].opm = sch[s].opm \ mask
                  /\ sch'[s].lpm \subseteq sch[s].lpm \ mask
            /\ ChpStep(s, mask, CHP_VARY_ON) =>
                  /\ sch'[s].opm = sch[s].opm \cup mask
                  /\ sch'[s].lpm = sch[s].lpm \cup mask
            /\ ChpStep(s, mask, CHP_ONLINE) =>
                  /\ sch'[s].opm = sch[s].opm
                  /\ sch'[s].lpm \in {sch[s].lpm,
                                      sch[s].lpm \cup (mask \cap sch[s].opm)}
            /\ ChpStep(s, mask, CHP_OFFLINE) =>
                  /\ sch'[s].opm = sch[s].opm
                  /\ sch'[s].lpm \subseteq sch[s].lpm]_vars

\* C35 witness: CHP_ONLINE for two paths of which one is operational has
\* added that one path to the current mask.
C35_Witness ==
    /\ call.name = "io_subchannel_chp_event"
    /\ call.args = <<1, Paths, CHP_ONLINE>> /\ call.ret = 0
    /\ sch[1].opm = {1} /\ sch[1].lpm = {1}
    /\ <<"fsm_event", 1, "DEV_EVENT_VERIFY">> \in Range(call.tr)

\* ------------------------------------- the recovery timer under fairness
\* Time passes, an expired timer fires and the scheduled recovery work runs.
SpecRecoveryFair ==
    /\ InitEval /\ [][NextRecovery]_vars
    /\ WF_vars(Tick) /\ WF_vars(TimerFire) /\ WF_vars(RecoveryWork)

\* The recovery timer is pending or the recovery work is scheduled.
RecoveryActive == rec.pending \/ rec.work

\* Device d is on the bus and waits for its paths to come back.
Waiting(d) ==
    /\ dev[d].alloc = "live" /\ dev[d].reg
    /\ dev[d].state \in {DEV_STATE_DISCONNECTED, DEV_STATE_DISCONNECTED_SENSE_ID}

\* The last handler was a recovery pass that sent device d a verify event.
Verified(d) ==
    /\ call.name = "recovery_work_func"
    /\ <<"fsm_event", d, "DEV_EVENT_VERIFY">> \in Range(call.tr)

\* C36: a call of ccw_device_schedule_recovery leaves the timer pending; no
\* step during which a device on the bus stays DISCONNECTED or
\* DISCONNECTED_SENSE_ID ends the recovery (timer pending or work
\* scheduled); and, with time passing and timer and work running, a device
\* that is DISCONNECTED while the recovery is active leaves that state or is
\* sent a verify event by a recovery pass, again and again.
C36_RecoveryKeepsGoing ==
    /\ [][ScheduleStep => rec'.pending]_vars
    /\ [][\A d \in Dev :
            (Waiting(d) /\ Waiting(d)' /\ RecoveryActive) => RecoveryActive']_vars
    /\ \A d \in Dev :
          (Waiting(d) /\ dev[d].state = DEV_STATE_DISCONNECTED /\ RecoveryActive)
             ~> (dev[d].state # DEV_STATE_DISCONNECTED \/ Verified(d))

\* C36 witness: the recovery pass of phase 0 has sent the online,
\* disconnected device 1 its verify event and has armed the timer of phase 1.
C36_Witness ==
    /\ Verified(1) /\ dev[1].online
    /\ dev[1].state = DEV_STATE_DISCONNECTED
    /\ rec.pending /\ rec.phase = 1 /\ ~rec.work
====
